---- MODULE Spec2Model ----
(***************************************************************************)
(* A model of rns_page_node/main.py (class PageNode): the statistics       *)
(* aggregator, the directory indexer and route registration, and the page  *)
(* and file request handlers.                                              *)
(*                                                                         *)
(* Text (paths, names, hex strings) is a sequence of atoms; "/" is the     *)
(* path separator atom.  Python's None, and any falsy value the code only  *)
(* tests for truth, is the empty sequence.                                 *)
(***************************************************************************)
EXTENDS Integers, Sequences, FiniteSets, TLC

VARIABLES
    \* ---- statistics (self.stats, self._stats_lock) and the threads using them
    stats,          \* self.stats
    stats_lock,     \* self._stats_lock: 0 when free, else the holding thread
    tpc,            \* per request thread: its position inside _record_request
    targs,          \* per request thread: the arguments of the call in progress
    tload,          \* per request thread: the counter value loaded by "+= 1"
    returned,       \* calls of _record_request that have returned, per type
    contended,      \* some thread has waited for the stats lock
    snapshot,       \* what the last get_stats() returned
    now,            \* the wall clock (time.time()), in seconds
    inserted,       \* request_info entries appended since the last _init_stats
    \* ---- the served directories and the indexes built from them
    fs,             \* the file system: node -> [kind, readable, xbit, content]
    pagespath,      \* self.pagespath, as given to the constructor
    filespath,      \* self.filespath
    servedpages,    \* self.servedpages
    servedfiles,    \* self.servedfiles
    request_handlers, \* self.destination.request_handlers: path -> handler
    table_lock,     \* self._lock: 0 when free, else the holder
    rpc,            \* the rebuilding thread's position in register_pages/_files
    plan,           \* what the scan in progress has still to append
    pagesLog,       \* history of the page index: [before, target, hist]
    filesLog,       \* history of the file index: [before, target, hist]
    \* ---- one request and its outcome
    environ,        \* os.environ of the node's process
    request,        \* the request last handed to a handler
    response,       \* what the handler returned, or that it raised
    opened,         \* the nodes the handler opened
    executed,       \* the program the handler ran, with its environment
    \* ---- the announce and refresh threads, and shutdown
    stop_event,     \* self._stop_event is set
    name,           \* self.name
    announce_interval,      \* self.announce_interval
    page_refresh_interval,  \* self.page_refresh_interval
    file_refresh_interval,  \* self.file_refresh_interval
    last_announce,          \* self.last_announce
    last_page_refresh,      \* self.last_page_refresh
    last_file_refresh,      \* self.last_file_refresh
    announce_pc,    \* the announce thread's position in _announce_loop
    refresh_pc,     \* the refresh thread's position in _refresh_loop
    shutdown_pc,    \* the position of the caller of shutdown
    destination,    \* self.destination: [has_close, close_calls]
    atick,          \* what the last pass of the announce loop's body did
    rtick,          \* what the last pass of the refresh loop's body did
    late,           \* per loop: passes begun with the stop event already set
    wake,           \* per loop: the clock at which its time.sleep(1) returns
    attempts,       \* per action: the last call made by a loop, and the one before
    \* ---- the stats file
    stats_file,     \* self.stats_file
    disk,           \* what the stats file holds
    disk_writable,  \* the stats file can be created and written
    plog,           \* the last _write_stats_event call: [called, before, ...]
    \* ---- links
    links,          \* the ids of the links established and not yet closed
    \* ---- save_stats_to_file
    saving,         \* the call in progress: [pc, stats, doc]
    \* ---- the two locks as the calls of the class take them
    calls           \* per thread: the method it is in and its next lock step

statsVars == <<stats, stats_lock, tpc, targs, tload, returned, contended, snapshot,
               now, inserted>>
indexVars == <<fs, pagespath, filespath, servedpages, servedfiles, request_handlers,
               table_lock, rpc, plan, pagesLog, filesLog>>
serveVars == <<environ, request, response, opened, executed>>

lifeVars == <<stop_event, name, announce_interval, page_refresh_interval,
              file_refresh_interval, last_announce, last_page_refresh, last_file_refresh,
              announce_pc, refresh_pc, shutdown_pc, destination, atick, rtick, late,
              wake, attempts>>
persistVars == <<stats_file, disk, disk_writable, plog>>
sessionVars == <<links, saving, calls>>
laterVars == <<lifeVars, persistVars, sessionVars>>

vars == <<statsVars, indexVars, serveVars, lifeVars, persistVars, sessionVars>>

------------------------------------------------------------------------------
(* Bounds of the model *)

\* calls of _record_request started in the concurrent specification
MaxCalls == 3
\* appends to the recent-request log in the log specification
MaxInserts == 102
\* requests handled in the handler and route specifications
MaxServed == 1

------------------------------------------------------------------------------
(* Text helpers *)

SEP == "/"

SetOf(s) == {s[i] : i \in 1..Len(s)}

Take(s, n) == SubSeq(s, 1, IF Len(s) < n THEN Len(s) ELSE n)

Last(s) == s[Len(s)]

RECURSIVE Flatten(_)
Flatten(ss) == IF ss = <<>> THEN <<>> ELSE Head(ss) \o Flatten(Tail(ss))

\* RNS.hexrep(data, delimit=False): two lower-case hex digits per byte
HexDigits == <<"0","1","2","3","4","5","6","7","8","9","a","b","c","d","e","f">>
hexrep(bytes) ==
    Flatten([i \in 1..Len(bytes) |->
                <<HexDigits[(bytes[i] \div 16) + 1], HexDigits[(bytes[i] % 16) + 1]>>])

------------------------------------------------------------------------------
(* Peers.  An identity is its hash (a byte sequence); no identity is <<>>. *)

IdentityA == <<51, 175>>
IdentityB == <<73, 178>>

\* RNS.Identity.recall_app_data(hash): the app data last announced by that
\* identity, <<>> when none is known
recall_app_data(hash) == IF hash = IdentityB THEN <<"I", "v", "a", "n">> ELSE <<>>

peer_hash_of(remote_identity) ==
    IF remote_identity # <<>> THEN hexrep(remote_identity) ELSE <<"anonymous">>

peer_display_of(remote_identity) ==
    IF remote_identity # <<>>
    THEN IF recall_app_data(remote_identity) # <<>>
         THEN Take(recall_app_data(remote_identity), 32)
         ELSE Take(hexrep(remote_identity), 16) \o <<"...">>
    ELSE <<"anonymous">>

------------------------------------------------------------------------------
(* Statistics *)

\* datetime.fromtimestamp(ts), and the two strftime keys taken from it
fromtimestamp(ts) ==
    [day |-> ts \div 86400,
     hour |-> (ts % 86400) \div 3600,
     second |-> ts % 3600]
hour_key(ts) == <<fromtimestamp(ts).day, fromtimestamp(ts).hour>>
day_key(ts) == <<fromtimestamp(ts).day>>

\* deque(maxlen=...) of stats['recent_requests']
RecentMaxLen == 100

\* defaultdict(int)[k] = 1 for a new key, nothing for a key already there
IncrOnlyNew(d, k) == IF k \in DOMAIN d THEN d ELSE d @@ (k :> 1)
\* defaultdict(int)[k] += 1
Incr(d, k) == IF k \in DOMAIN d THEN [d EXCEPT ![k] = @ + 1] ELSE d @@ (k :> 1)

\* defaultdict(lambda: {'pages': 0, 'files': 0})[k][field] += 1
IncrBucket(d, k, field) ==
    LET cur == IF k \in DOMAIN d THEN d[k] ELSE [pages |-> 0, files |-> 0]
        new == [cur EXCEPT ![field] = @ + 1]
    IN  IF k \in DOMAIN d THEN [d EXCEPT ![k] = new] ELSE d @@ (k :> new)

EmptyMap == [k \in {} |-> 0]

\* self.stats as built by _init_stats
InitStats(start) ==
    [start_time |-> start,
     total_connections |-> 0,
     active_connections |-> 0,
     total_page_requests |-> 0,
     total_file_requests |-> 0,
     page_requests_by_path |-> EmptyMap,
     file_requests_by_path |-> EmptyMap,
     requests_by_peer |-> EmptyMap,
     recent_requests |-> <<>>,
     connected_peers |-> EmptyMap,
     hourly_stats |-> EmptyMap,
     daily_stats |-> EmptyMap]

\* deque.append on a deque with a maximum length: the oldest entry is
\* discarded when the deque is full
DequeAppendDropNone(q, e, maxlen) == Append(q, e)
DequeAppend(q, e, maxlen) ==
    IF Len(q) >= maxlen THEN Append(Tail(q), e) ELSE Append(q, e)

request_info_of(request_type, path, remote_identity, requested_at) ==
    [type |-> request_type,
     path |-> path,
     peer |-> peer_display_of(remote_identity),
     peer_hash |-> peer_hash_of(remote_identity),
     timestamp |-> requested_at,
     datetime |-> fromtimestamp(requested_at)]

TotalField(request_type) ==
    IF request_type = "page" THEN "total_page_requests" ELSE "total_file_requests"
ByPathField(request_type) ==
    IF request_type = "page" THEN "page_requests_by_path" ELSE "file_requests_by_path"
BucketField(request_type) == IF request_type = "page" THEN "pages" ELSE "files"

\* The body of _record_request, given the value `loaded` that the statement
\* "total_..._requests += 1" read before it stores loaded + 1.  The node
\* runs without a stats file (self.stats_file is None), so the closing
\* _write_stats_event returns at once (line 179-180).
RecordRequestStore(s, loaded, request_type, path, remote_identity, requested_at) ==
    [s EXCEPT
        ![TotalField(request_type)] = loaded + 1,
        ![ByPathField(request_type)] = Incr(@, path),
        !.requests_by_peer = Incr(@, peer_hash_of(remote_identity)),
        !.recent_requests =
            DequeAppend(@, request_info_of(request_type, path, remote_identity,
                                           requested_at), RecentMaxLen),
        !.hourly_stats = IncrBucket(@, hour_key(requested_at), BucketField(request_type)),
        !.daily_stats = IncrBucket(@, day_key(requested_at), BucketField(request_type))]

\* _record_request run without interruption
_record_request(s, request_type, path, remote_identity, requested_at) ==
    RecordRequestStore(s, s[TotalField(request_type)], request_type, path,
                       remote_identity, requested_at)

\* get_stats: the counters of the returned mapping
get_stats(s) ==
    [total_connections |-> s.total_connections,
     active_connections |-> s.active_connections,
     total_page_requests |-> s.total_page_requests,
     total_file_requests |-> s.total_file_requests,
     total_requests |-> s.total_page_requests + s.total_file_requests,
     recent_requests |->
        SubSeq(s.recent_requests,
               IF Len(s.recent_requests) > 10 THEN Len(s.recent_requests) - 9 ELSE 1,
               Len(s.recent_requests)),
     connected_peers |-> Cardinality(DOMAIN s.connected_peers)]

------------------------------------------------------------------------------
(* The file system.                                                        *)
(*                                                                         *)
(* A name is a sequence of atoms; a name that begins with a dot has "." as *)
(* its first atom, and an extension such as ".allowed" is one atom.  A     *)
(* node is the sequence of names leading to it from "/".  A path string is *)
(* the atoms of its names with SEP between them.                           *)

DOT == "."
Pages == <<"pages">>
Files == <<"files">>
IndexMu == <<"index", ".mu">>
AllowedName == <<"a", ".allowed">>
HiddenName == <<DOT, "draft", ".mu">>
SubName == <<"sub">>
BName == <<"b", ".mu">>
GitName == <<DOT, "git">>
CName == <<"c", ".mu">>
NotesName == <<"notes", ".txt">>
KeyName == <<"key", ".allowed">>
HFileName == <<DOT, "htaccess">>
EtcName == <<"etc">>
PasswdName == <<"passwd">>

RootNode == <<>>
PagesNode == <<Pages>>
FilesNode == <<Files>>
SubNode == <<Pages, SubName>>
IndexNode == <<Pages, IndexMu>>
BNode == <<Pages, SubName, BName>>
NotesNode == <<Files, NotesName>>
PasswdNode == <<EtcName, PasswdName>>

\* every node the model's file system can hold, in the order os.listdir
\* reports the entries of a directory
NodeOrder ==
    << RootNode, PagesNode, FilesNode, <<EtcName>>, PasswdNode,
       <<Pages, HiddenName>>, IndexNode, <<Pages, AllowedName>>,
       SubNode, BNode, <<Pages, GitName>>, <<Pages, GitName, CName>>,
       <<Files, HFileName>>, NotesNode, <<Files, KeyName>> >>
Nodes == SetOf(NodeOrder)

\* the result of resolving a path that names nothing
NoNode == << <<"ENOENT">> >>

Absent == [kind |-> "none", readable |-> FALSE, xbit |-> FALSE, content |-> <<>>]
Directory == [kind |-> "dir", readable |-> TRUE, xbit |-> TRUE, content |-> <<>>]
FileOf(content) == [kind |-> "file", readable |-> TRUE, xbit |-> FALSE, content |-> content]

\* file contents: a sequence of lines, each a sequence of atoms
StaticPage == << <<">", "Hello">> >>
OtherPage == << <<">", "Sub">> >>
NotesText == << <<"abc">> >>
PasswdText == << <<"root:x:0:0">> >>
EchoScript == << <<"#!", "/bin/sh">>, <<"echo", "$", "field_x">> >>
EnvScript == << <<"#!", "/bin/sh">>, <<"env">> >>
\* a script that writes part of a page and then ends with exit status 1
FailScript == << <<"#!", "/bin/sh">>, <<"echo", "partial">>, <<"exit", "1">> >>

Stat(f, node) == IF node \in Nodes THEN f[node] ELSE Absent

Parent(node) == IF node = <<>> THEN <<>> ELSE SubSeq(node, 1, Len(node) - 1)

\* str.split(SEP) of a path string: its segments, each a name
RECURSIVE SplitFrom(_, _, _)
SplitFrom(text, done, cur) ==
    IF text = <<>> THEN Append(done, cur)
    ELSE IF Head(text) = SEP THEN SplitFrom(Tail(text), Append(done, cur), <<>>)
    ELSE SplitFrom(Tail(text), done, Append(cur, Head(text)))
Split(text) == SplitFrom(text, <<>>, <<>>)

\* The kernel's resolution of an absolute path: "" and "." stay, ".." goes
\* to the parent (the parent of "/" is "/"), any other name must exist in
\* the directory reached so far.
RECURSIVE WalkFrom(_, _, _)
WalkFrom(f, node, segs) ==
    IF node = NoNode \/ segs = <<>> THEN node
    ELSE IF Stat(f, node).kind # "dir" THEN NoNode
    ELSE LET seg == Head(segs)
         IN  IF seg = <<>> \/ seg = <<DOT>> THEN WalkFrom(f, node, Tail(segs))
             ELSE IF seg = <<DOT, DOT>> THEN WalkFrom(f, Parent(node), Tail(segs))
             ELSE IF Stat(f, Append(node, seg)).kind = "none" THEN NoNode
             ELSE WalkFrom(f, Append(node, seg), Tail(segs))
Walk(f, path) == WalkFrom(f, RootNode, Split(path))

isfile(f, path) == Stat(f, Walk(f, path)).kind = "file"
isdir(f, path) == Stat(f, Walk(f, path)).kind = "dir"

\* os.path.join(base, entry) for a relative entry
join(base, entry) ==
    IF base # <<>> /\ Last(base) = SEP THEN base \o entry ELSE base \o <<SEP>> \o entry

\* the path with its directories and leading separator kept
BasenameKeepsDirs(path) == path
\* os.path.basename
basename(path) == Last(Split(path))

\* os.listdir(base) succeeds on a readable directory
listable(f, base) == isdir(f, base) /\ Stat(f, Walk(f, base)).readable

\* os.listdir(base): the names of the entries of the directory
listdir(f, base) ==
    LET dir == Walk(f, base)
        kids == SelectSeq(NodeOrder, LAMBDA n : n # <<>> /\ Parent(n) = dir
                                                /\ f[n].kind # "none")
    IN  [i \in 1..Len(kids) |-> Last(kids[i])]

\* entry.startswith('.') and entry.endswith(".allowed")
startswith_dot(entry) == entry # <<>> /\ Head(entry) = DOT
endswith_allowed(entry) == entry # <<>> /\ Last(entry) = ".allowed"

------------------------------------------------------------------------------
(* The directory indexer: _scan_pages and _scan_files.  A scan yields the  *)
(* list it has appended to and whether it ran to its end (ok) or was cut   *)
(* short by os.listdir raising.                                            *)

\* the test of line 106 / 116 that skips an entry
SkipsEntryNever(entry) == FALSE
SkipsEntry(entry) == startswith_dot(entry)

\* the test of line 111 that keeps a file in the page index
KeepsPage(f, path, entry) == isfile(f, path) /\ ~endswith_allowed(entry)
\* the test of line 121 that keeps a file in the file index
KeepsFile(f, path, entry) == isfile(f, path)

RECURSIVE _scan_pages(_, _, _), ScanPagesEntries(_, _, _, _)
ScanPagesEntries(f, base, entries, acc) ==
    IF entries = <<>> THEN [list |-> acc, ok |-> TRUE]
    ELSE LET entry == Head(entries)
             path == join(base, entry)
         IN  IF SkipsEntry(entry) THEN ScanPagesEntries(f, base, Tail(entries), acc)
             ELSE IF isdir(f, path)
                  THEN LET sub == _scan_pages(f, path, acc)
                       IN  IF sub.ok THEN ScanPagesEntries(f, base, Tail(entries), sub.list)
                           ELSE sub
             ELSE IF KeepsPage(f, path, entry)
                  THEN ScanPagesEntries(f, base, Tail(entries), Append(acc, path))
             ELSE ScanPagesEntries(f, base, Tail(entries), acc)
_scan_pages(f, base, acc) ==
    IF ~listable(f, base) THEN [list |-> acc, ok |-> FALSE]
    ELSE ScanPagesEntries(f, base, listdir(f, base), acc)

RECURSIVE _scan_files(_, _, _), ScanFilesEntries(_, _, _, _)
ScanFilesEntries(f, base, entries, acc) ==
    IF entries = <<>> THEN [list |-> acc, ok |-> TRUE]
    ELSE LET entry == Head(entries)
             path == join(base, entry)
         IN  IF SkipsEntry(entry) THEN ScanFilesEntries(f, base, Tail(entries), acc)
             ELSE IF isdir(f, path)
                  THEN LET sub == _scan_files(f, path, acc)
                       IN  IF sub.ok THEN ScanFilesEntries(f, base, Tail(entries), sub.list)
                           ELSE sub
             ELSE IF KeepsFile(f, path, entry)
                  THEN ScanFilesEntries(f, base, Tail(entries), Append(acc, path))
             ELSE ScanFilesEntries(f, base, Tail(entries), acc)
_scan_files(f, base, acc) ==
    IF ~listable(f, base) THEN [list |-> acc, ok |-> FALSE]
    ELSE ScanFilesEntries(f, base, listdir(f, base), acc)

\* "self.servedpages = []" / "self.servedfiles = []" (lines 70 and 91)
FreshIndexKeepsOld(old) == old
FreshIndex(old) == <<>>

------------------------------------------------------------------------------
(* Route registration (the second half of register_pages/register_files)   *)

PagePrefix == <<SEP, "page">>
FilePrefix == <<SEP, "file">>
IndexRoute == PagePrefix \o <<SEP>> \o IndexMu

\* RNS.Destination.register_request_handler: the table is keyed by the
\* path, so registering a path again replaces its handler
register_request_handler(handlers, path, generator) ==
    [p \in (DOMAIN handlers) \cup {path} |-> IF p = path THEN generator ELSE handlers[p]]

\* full_path[len(root):]
rel_of(full_path, root) == SubSeq(full_path, Len(root) + 1, Len(full_path))

RECURSIVE RegisterAll(_, _, _, _, _)
RegisterAll(handlers, served, root, prefix, generator) ==
    IF served = <<>> THEN handlers
    ELSE RegisterAll(register_request_handler(handlers,
                                              prefix \o rel_of(Head(served), root),
                                              generator),
                     Tail(served), root, prefix, generator)

\* the test of line 73
NeedsDefaultIndex(f, root) == ~isfile(f, join(root, IndexMu))

\* lines 73-87 of register_pages
register_page_handlers(handlers, f, root, served) ==
    RegisterAll(IF NeedsDefaultIndex(f, root)
                THEN register_request_handler(handlers, IndexRoute, "serve_default_index")
                ELSE handlers,
                served, root, PagePrefix, "serve_page")

\* lines 94-102 of register_files
register_file_handlers(handlers, root, served) ==
    RegisterAll(handlers, served, root, FilePrefix, "serve_file")

NoHandlers == [p \in {} |-> "none"]

------------------------------------------------------------------------------
(* Request handlers: serve_default_index, serve_page, serve_file           *)

DEFAULT_INDEX == <<">Default Home Page">>
DEFAULT_NOTALLOWED == <<">Request Not Allowed">>

EmptyEnv == [k \in {} |-> ""]
\* the variables a process environment of the model can hold, in the order
\* the env program prints them
EnvOrder == <<"PATH", "HOME", "link_id", "remote_identity", "field_x", "other_key",
              "var_field_test", "field_bytes_test">>

\* request payloads (the handler's `data` argument)
NoData == [kind |-> "none", dict |-> EmptyEnv, bytes |-> <<>>]
DictData(d) == [kind |-> "dict", dict |-> d, bytes |-> <<>>]
FieldXData == DictData([k \in {"field_x", "other_key"} |->
                           IF k = "field_x" THEN "hello" ELSE "private"])
VarFieldData == DictData([k \in {"var_field_test"} |-> "dictionary_value"])
\* a bytes payload of key=value pairs separated by "|"
BytesData == [kind |-> "bytes", dict |-> EmptyEnv,
              bytes |-> <<"field_bytes_test", "=", "bytes_value", "|",
                          "action", "=", "bytes_action">>]

\* str.replace(old, new, 1): the first occurrence of old, if any, replaced
RECURSIVE ReplaceFirst(_, _, _)
ReplaceFirst(text, old, new) ==
    IF Len(text) < Len(old) THEN text
    ELSE IF SubSeq(text, 1, Len(old)) = old
         THEN new \o SubSeq(text, Len(old) + 1, Len(text))
    ELSE <<Head(text)>> \o ReplaceFirst(Tail(text), old, new)

\* open(file_path, 'rb') succeeds on a readable regular file
CanOpen(f, path) == isfile(f, path) /\ Stat(f, Walk(f, path)).readable
ContentAt(f, path) == Stat(f, Walk(f, path)).content

\* f.readline() and f.read() of a file of the model
readline(content) == IF content = <<>> THEN <<>> ELSE Head(content)
read(content) == Flatten([i \in 1..Len(content) |-> content[i] \o <<"\n">>])

\* first_line.startswith(b'#!'), False when the file cannot be read (lines 282-287)
is_script(f, file_path) ==
    /\ CanOpen(f, file_path)
    /\ readline(ContentAt(f, file_path)) # <<>>
    /\ Head(readline(ContentAt(f, file_path))) = "#!"

\* os.access(file_path, os.X_OK)
AccessXAlways(f, file_path) == TRUE
access_x(f, file_path) ==
    Stat(f, Walk(f, file_path)).kind # "none" /\ Stat(f, Walk(f, file_path)).xbit

\* The environment subprocess.run gives the child.  Line 291 passes no env
\* argument, so the child inherits the environment of the node's process.
subprocess_env(host, data, link_id, remote_identity) == host

\* what a script of the model writes to its standard output
RunLine(line, env) ==
    IF line = <<"echo", "$", "field_x">>
    THEN (IF "field_x" \in DOMAIN env THEN <<env["field_x"]>> ELSE <<>>) \o <<"\n">>
    ELSE IF line = <<"echo", "partial">> THEN <<"partial", "\n">>
    ELSE IF line = <<"env">>
    THEN Flatten([i \in 1..Len(EnvOrder) |->
                    IF EnvOrder[i] \in DOMAIN env
                    THEN <<EnvOrder[i], "=", env[EnvOrder[i]], "\n">> ELSE <<>>])
    ELSE <<>>
stdout_of(content, env) ==
    Flatten([i \in 1..(Len(content) - 1) |-> RunLine(content[i + 1], env)])

\* result.returncode of the run; line 291 passes no check=True and line 292
\* never reads it
returncode(content) ==
    IF content # <<>> /\ Last(content) = <<"exit", "1">> THEN 1 ELSE 0

Bytes(body) == [kind |-> "bytes", body |-> body, name |-> <<>>]
Stream(body, filename) == [kind |-> "stream", body |-> body, name |-> filename]
Raised == [kind |-> "raise", body |-> <<>>, name |-> <<>>]
NoResponse == [kind |-> "none", body |-> <<>>, name |-> <<>>]

\* attempted: subprocess.run was called; started: the program was started
NoExecution == [attempted |-> FALSE, started |-> FALSE, node |-> NoNode, env |-> EmptyEnv]

OpenedBy(f, path) == IF CanOpen(f, path) THEN {Walk(f, path)} ELSE {}

\* lines 295-296: the file read whole, or the error open() raises
ReadWhole(f, file_path) ==
    IF CanOpen(f, file_path) THEN Bytes(read(ContentAt(f, file_path))) ELSE Raised

\* serve_page after its _record_request call (lines 281-296).  `launch` is
\* whether the operating system could start the program.
serve_page(f, host, root, path, data, link_id, remote_identity, launch) ==
    LET file_path == ReplaceFirst(path, PagePrefix, root)
        env == subprocess_env(host, data, link_id, remote_identity)
    IN  IF is_script(f, file_path) /\ access_x(f, file_path)
        THEN IF launch
             THEN [response |-> Bytes(stdout_of(ContentAt(f, file_path), env)),
                   opened |-> OpenedBy(f, file_path),
                   executed |-> [attempted |-> TRUE, started |-> TRUE,
                                 node |-> Walk(f, file_path), env |-> env]]
             ELSE [response |-> ReadWhole(f, file_path),
                   opened |-> OpenedBy(f, file_path),
                   executed |-> [attempted |-> TRUE, started |-> FALSE,
                                 node |-> Walk(f, file_path), env |-> env]]
        ELSE [response |-> ReadWhole(f, file_path),
              opened |-> OpenedBy(f, file_path),
              executed |-> NoExecution]

\* serve_file after its _record_request call (lines 300-301)
serve_file(f, root, path) ==
    LET file_path == ReplaceFirst(path, FilePrefix, root)
    IN  [response |-> IF CanOpen(f, file_path)
                      THEN Stream(read(ContentAt(f, file_path)), basename(file_path))
                      ELSE Raised,
         opened |-> OpenedBy(f, file_path),
         executed |-> NoExecution]

\* serve_default_index after its _record_request call (line 277)
serve_default_index ==
    [response |-> Bytes(DEFAULT_INDEX), opened |-> {}, executed |-> NoExecution]

\* fresh: a rebuild of the page index has completed and the pages tree is
\* unchanged since; had_index: the pages root held an index file
NoRequest == [handler |-> "none", path |-> <<>>, data |-> NoData, link_id |-> <<>>,
              remote_identity |-> <<>>, requested_at |-> 0,
              fresh |-> FALSE, had_index |-> FALSE]

------------------------------------------------------------------------------
(* The stats file: _init_stats_file and _write_stats_event                 *)

\* The file as json.load finds it.  kind is "missing" (no such file),
\* "notjson" (text that json.load rejects with JSONDecodeError), "notutf8"
\* (bytes that cannot be decoded: UnicodeDecodeError) or "json"; for a
\* "json" file, keys are the keys of the top-level object.
ZeroSummary == [total_connections |-> 0, total_page_requests |-> 0,
                total_file_requests |-> 0, last_updated |-> 0]
NoNodeInfo == [name |-> <<>>, start_time |-> 0]
Unparsed(kind) ==
    [kind |-> kind, keys |-> {}, node_info |-> NoNodeInfo, connections |-> <<>>,
     requests |-> <<>>, summary |-> ZeroSummary]
MissingFile == Unparsed("missing")
\* the JSON document {}
EmptyObject == Unparsed("json")

\* initial_stats of _init_stats_file (lines 154-168)
initial_stats(node_name, start_time, clock) ==
    [kind |-> "json",
     keys |-> {"node_info", "connections", "requests", "summary"},
     node_info |-> [name |-> IF node_name = <<>> THEN <<"Unnamed">> ELSE node_name,
                    start_time |-> start_time],
     connections |-> <<>>,
     requests |-> <<>>,
     summary |-> [ZeroSummary EXCEPT !.last_updated = clock]]

\* _init_stats_file: the file replaced by initial_stats; a failure to
\* create or write it is logged and leaves the file as it was
_init_stats_file(d, writable, node_name, start_time, clock) ==
    IF writable THEN initial_stats(node_name, start_time, clock) ELSE d

\* the number of events each list of the file keeps (lines 208-211)
MaxFileEvents == 1000

\* list[:n]
KeepFirst(list, n) == IF Len(list) > n THEN SubSeq(list, 1, n) ELSE list
\* list[-n:]
KeepLast(list, n) ==
    IF Len(list) > n THEN SubSeq(list, Len(list) - n + 1, Len(list)) ELSE list

\* lines 194-202: the event added to the loaded document; a key the
\* document lacks raises KeyError
CanMerge(doc, event_type) ==
    IF event_type = "connection" THEN {"connections", "summary"} \subseteq doc.keys
    ELSE IF event_type = "request" THEN {"requests", "summary"} \subseteq doc.keys
    ELSE TRUE
\* the event appended to its list and the summary left as it was
MergeListOnly(doc, event_type, event_data) ==
    IF event_type = "connection" THEN [doc EXCEPT !.connections = Append(@, event_data)]
    ELSE IF event_type = "request" THEN [doc EXCEPT !.requests = Append(@, event_data)]
    ELSE doc
Merge(doc, event_type, event_data) ==
    IF event_type = "connection"
    THEN [doc EXCEPT !.connections = Append(@, event_data),
                     !.summary.total_connections = @ + 1]
    ELSE IF event_type = "request"
    THEN [doc EXCEPT !.requests = Append(@, event_data),
                     !.summary.total_page_requests =
                         IF event_data.type = "page" THEN @ + 1 ELSE @,
                     !.summary.total_file_requests =
                         IF event_data.type = "file" THEN @ + 1 ELSE @]
    ELSE doc

\* lines 204-211
Stamp(doc, clock) ==
    [doc EXCEPT !.summary.last_updated = clock,
                !.connections = KeepLast(@, MaxFileEvents),
                !.requests = KeepLast(@, MaxFileEvents)]

\* _write_stats_event with a stats file configured (lines 182-218): the
\* file afterwards, whether the file was reinitialised, and whether the
\* event was written.  Every exception ends in the handler of line 217.
WriteStatsEvent(d, writable, event_type, event_data, node_name, start_time, clock) ==
    LET reinit == d.kind \in {"missing", "notjson"}
        d1 == IF reinit THEN _init_stats_file(d, writable, node_name, start_time, clock)
              ELSE d
        loaded == d1.kind = "json"
    IN  IF loaded /\ CanMerge(d1, event_type) /\ writable
        THEN [disk |-> Stamp(Merge(d1, event_type, event_data), clock),
              reinit |-> reinit, wrote |-> TRUE]
        ELSE [disk |-> d1, reinit |-> reinit /\ writable, wrote |-> FALSE]

\* _write_stats_event (lines 177-218)
_write_stats_event(sf, d, writable, event_type, event_data, node_name, start, clock) ==
    IF sf = <<>> THEN [disk |-> d, reinit |-> FALSE, wrote |-> FALSE]
    ELSE WriteStatsEvent(d, writable, event_type, event_data, node_name, start, clock)

NoEvent == [type |-> "none"]
\* what the last call of _write_stats_event found and did, and how many
\* connections and requests the handlers have taken so far
NoWrite == [called |-> FALSE, before |-> MissingFile, event_type |-> "none",
            event |-> NoEvent, reinit |-> FALSE, wrote |-> FALSE,
            handled |-> [connections |-> 0, requests |-> 0]]

\* connection_info of on_connect (lines 337-344)
connection_info_of(link_id, remote_identity, connection_time) ==
    [event |-> "connected",
     peer |-> peer_display_of(remote_identity),
     peer_hash |-> peer_hash_of(remote_identity),
     timestamp |-> connection_time,
     datetime |-> fromtimestamp(connection_time),
     link_id |-> hexrep(link_id)]

\* the locked block of on_connect on the statistics (lines 307-334)
ConnectStore(s, link_id, remote_identity, connection_time) ==
    [s EXCEPT
        !.total_connections = @ + 1,
        !.active_connections = @ + 1,
        !.connected_peers =
            [k \in DOMAIN @ \cup {hexrep(link_id)} |->
                IF k = hexrep(link_id)
                THEN [peer_hash |-> peer_hash_of(remote_identity),
                      peer_display |-> peer_display_of(remote_identity),
                      connected_at |-> connection_time,
                      link_id |-> hexrep(link_id)]
                ELSE @[k]]]

\* "link.link_id in self.stats['connected_peers']" (line 355): the keys of
\* the table are compared with the key given
has_key(d, key) == \E k \in DOMAIN d : Len(k) = Len(key) /\ k = key

\* dict.pop(key)
pop(d, key) == [k \in DOMAIN d \ {key} |-> d[k]]

\* max(0, n - 1)
DecrementToZero(n) == IF n - 1 > 0 THEN n - 1 ELSE 0

\* the locked block of _on_link_closed (lines 355-358): the table is
\* looked up with link.link_id itself
LinkClosedStore(s, link_id) ==
    IF has_key(s.connected_peers, link_id)
    THEN [s EXCEPT !.connected_peers = pop(@, link_id),
                   !.active_connections = DecrementToZero(@)]
    ELSE s
------------------------------------------------------------------------------
(* The announce and refresh loops, and shutdown                            *)

\* while not self._stop_event.is_set() (lines 361 and 374)
LoopContinuesAlways(stop) == TRUE
LoopContinues(stop) == ~stop

\* line 363: time.time() - self.last_announce > self.announce_interval
AnnounceDueAtInterval(clock, last, interval) == clock - last >= interval
AnnounceDue(clock, last, interval) == clock - last > interval

\* lines 364-367: announce(app_data=self.name.encode('utf-8')) when
\* self.name is truthy, announce() otherwise.  The bytes of a name are its
\* atoms.
announce_app_data(node_name) ==
    IF node_name # <<>> THEN [given |-> TRUE, data |-> node_name]
    ELSE [given |-> FALSE, data |-> <<>>]

\* lines 377 and 380: interval > 0 and now - last_refresh > interval
RefreshDueIgnoresZero(interval, clock, last) == clock - last > interval
RefreshDue(interval, clock, last) == interval > 0 /\ clock - last > interval

\* Thread.join(timeout=5) returns when the thread has ended or the timeout
\* has passed; "raise" is an error raised by join
join_outcomes(ended) == IF ended THEN {"joined", "raise"} ELSE {"timeout", "raise"}

\* where shutdown continues after a join: an error raised by either join is
\* caught at line 532 and shutdown goes on to the close step
AfterJoinErrorPropagates(outcome, next) == IF outcome = "raise" THEN "raised" ELSE next
AfterJoin(outcome, next) == IF outcome = "raise" THEN "close" ELSE next

\* a counter of the model that stops at 2
Bump(n) == IF n < 2 THEN n + 1 ELSE n

\* where a pass of a loop body ends: an exception leaves the try block for
\* the handler (lines 370-371, 384-385), which logs it, and the loop test
\* comes next; otherwise the pass ends in time.sleep(1) (lines 369, 383)
PassEndsLoopOnError(raised) == IF raised THEN "ended" ELSE "sleep"
PassEnds(raised) == IF raised THEN "test" ELSE "sleep"

\* time.sleep(1) begun at `clock` returns no earlier than this
WakeTime(clock) == clock + 1

\* the calls a loop made of one action: how many (up to 2), when the last
\* one was made and whether it returned, and the same of the one before
NoAttempt == [n |-> 0, at |-> 0, ok |-> FALSE, gap |-> 0, prev_ok |-> FALSE]
Attempt(a, clock, ok) ==
    [n |-> Bump(a.n), at |-> clock, ok |-> ok,
     gap |-> IF a.n = 0 THEN 0 ELSE clock - a.at, prev_ok |-> a.ok]
------------------------------------------------------------------------------
(* Initial values *)

\* threading.Lock(), unlocked
Free == 0
Threads == {1, 2}
\* the thread that rebuilds the indexes (self._refresh_thread)
RefreshThread == 3

PagesRoot == <<SEP>> \o Pages
PagesRootSlash == <<SEP>> \o Pages \o <<SEP>>
FilesRoot == <<SEP>> \o Files

DirNodes == {RootNode, PagesNode, FilesNode, <<EtcName>>, SubNode, <<Pages, GitName>>}

\* a tree with the given index page, sub/b.mu and notes.txt; everything else
\* of NodeOrder is present
TreeWith(index, b, notes) ==
    [n \in Nodes |->
        IF n \in DirNodes THEN Directory
        ELSE IF n = IndexNode THEN index
        ELSE IF n = BNode THEN b
        ELSE IF n = NotesNode THEN notes
        ELSE IF n = PasswdNode THEN FileOf(PasswdText)
        ELSE FileOf(OtherPage)]

BaseTree == TreeWith(FileOf(StaticPage), FileOf(OtherPage), FileOf(NotesText))

BaseEnv == [k \in {"PATH"} |-> "/usr/bin"]
HostEnv == [k \in {"PATH", "HOME"} |-> IF k = "PATH" THEN "/usr/bin" ELSE "/root"]

NoArgs == [type |-> "page", path |-> <<>>, remote_identity |-> <<>>, requested_at |-> 0]
NoPlan == [todo |-> <<>>, ok |-> TRUE]

NoSnapshot == [total_connections |-> 0, active_connections |-> 0,
               total_page_requests |-> 0, total_file_requests |-> 0,
               total_requests |-> 0, recent_requests |-> <<>>,
               connected_peers |-> 0, taken |-> FALSE, quiet |-> FALSE,
               returned |-> [page |-> 0, file |-> 0]]

\* the request threads and the thread that rebuilds: any of them may call
\* any method
AllThreads == Threads \cup {RefreshThread}
NoCall == [op |-> "none", pc |-> 0]

\* what save_stats_to_file has got so far: the mapping get_stats returned,
\* and the document handed to json.dump
NoDocument == [written |-> FALSE, total_page_requests |-> 0, total_file_requests |-> 0,
               page_requests_by_path |-> EmptyMap, file_requests_by_path |-> EmptyMap,
               requests_by_peer |-> EmptyMap]
NoSaving == [pc |-> "idle", stats |-> get_stats(InitStats(0)), doc |-> NoDocument]

\* _init_stats in the constructor run at time `clock`, no request thread
\* running, no link established and no statistics being saved
StatsConstructedAt(clock) ==
    /\ stats = InitStats(clock)
    /\ stats_lock = Free
    /\ tpc = [t \in Threads |-> "idle"]
    /\ targs = [t \in Threads |-> NoArgs]
    /\ tload = [t \in Threads |-> 0]
    /\ returned = [page |-> 0, file |-> 0]
    /\ contended = FALSE
    /\ snapshot = NoSnapshot
    /\ now = clock
    /\ inserted = <<>>
    /\ links = {}
    /\ saving = NoSaving
    /\ calls = [t \in AllThreads |-> NoCall]

StatsConstructed == StatsConstructedAt(0)

\* lines 58-59 of the constructor over tree f: both indexes built and their
\* routes registered.  A scan that raises makes the constructor raise, so
\* no node exists for such a tree.
IndexConstructed(f, proot, froot) ==
    LET p == _scan_pages(f, proot, <<>>)
        q == _scan_files(f, froot, <<>>)
    IN  /\ p.ok /\ q.ok
        /\ fs = f
        /\ pagespath = proot
        /\ filespath = froot
        /\ servedpages = p.list
        /\ servedfiles = q.list
        /\ request_handlers =
              register_file_handlers(
                  register_page_handlers(NoHandlers, f, proot, p.list), froot, q.list)
        /\ table_lock = Free
        /\ rpc = "idle"
        /\ plan = NoPlan
        /\ pagesLog = [before |-> SetOf(p.list), target |-> SetOf(p.list), hist |-> <<p.list>>]
        /\ filesLog = [before |-> SetOf(q.list), target |-> SetOf(q.list), hist |-> <<q.list>>]

NoRequestYet(env) ==
    /\ environ = env
    /\ request = NoRequest
    /\ response = NoResponse
    /\ opened = {}
    /\ executed = NoExecution


NoAnnounceTick == [taken |-> FALSE, first |-> FALSE, clock |-> 0, last |-> 0,
                   called |-> FALSE, app_data |-> [given |-> FALSE, data |-> <<>>]]
NoRefreshTick == [taken |-> FALSE, clock |-> 0, last_page |-> 0, last_file |-> 0,
                  pages_called |-> FALSE, files_called |-> FALSE, raised |-> FALSE]

\* lines 32-33, 38, 48-53 and 63-66 of the constructor run at time `clock`:
\* the intervals stored, the refresh times set to the clock, both threads
\* started; has_close is whether the destination object has a close method
ThreadsConstructed(clock, node_name, a_interval, p_interval, f_interval, has_close) ==
    /\ stop_event = FALSE
    /\ name = node_name
    /\ announce_interval = a_interval
    /\ page_refresh_interval = p_interval
    /\ file_refresh_interval = f_interval
    /\ last_announce = 0
    /\ last_page_refresh = clock
    /\ last_file_refresh = clock
    /\ announce_pc = "test"
    /\ refresh_pc = "test"
    /\ shutdown_pc = "idle"
    /\ destination = [has_close |-> has_close, close_calls |-> 0]
    /\ atick = NoAnnounceTick
    /\ rtick = NoRefreshTick
    /\ late = [announce |-> 0, refresh |-> 0]
    /\ wake = [announce |-> 0, refresh |-> 0]
    /\ attempts = [announce |-> NoAttempt, pages |-> NoAttempt, files |-> NoAttempt]

\* the constructor's defaults (line 32)
ThreadsAtDefaults == ThreadsConstructed(0, <<>>, 360, 0, 0, FALSE)

\* stats_file=None (line 32): no stats file is written
NoStatsFile ==
    /\ stats_file = <<>>
    /\ disk = MissingFile
    /\ disk_writable = TRUE
    /\ plog = NoWrite
------------------------------------------------------------------------------
(* Request threads calling _record_request concurrently *)

PagePathA == IndexRoute
FilePathA == FilePrefix \o <<SEP>> \o NotesName

\* threading.Lock.acquire: possible only while nobody holds the lock
LockAvailableIgnored(lock) == TRUE
LockAvailable(lock) == lock = Free

StatsInit ==
    /\ StatsConstructed
    /\ ThreadsAtDefaults
    /\ NoStatsFile
    /\ IndexConstructed(BaseTree, PagesRoot, FilesRoot)
    /\ NoRequestYet(BaseEnv)

CallsStarted ==
    returned.page + returned.file + Cardinality({t \in Threads : tpc[t] # "idle"})

\* the transport calls a handler on thread t; the handler calls _record_request
RecordRequestCallBy(t, ty, id) ==
    /\ tpc[t] = "idle"
    /\ CallsStarted < MaxCalls
    /\ targs' = [targs EXCEPT ![t] =
                    [type |-> ty,
                     path |-> IF ty = "page" THEN PagePathA ELSE FilePathA,
                     remote_identity |-> id,
                     requested_at |-> now]]
    /\ tpc' = [tpc EXCEPT ![t] = "acquire"]
    /\ UNCHANGED <<laterVars, stats, stats_lock, tload, returned, contended, snapshot, now, inserted,
                   indexVars, serveVars>>

RecordRequestCall(t) ==
    \E ty \in {"page", "file"}, id \in {<<>>, IdentityA} : RecordRequestCallBy(t, ty, id)

\* "with self._stats_lock:" entered
RecordRequestAcquire(t) ==
    /\ tpc[t] = "acquire"
    /\ LockAvailable(stats_lock)
    /\ stats_lock' = t
    /\ tpc' = [tpc EXCEPT ![t] = "load"]
    /\ contended' = (contended \/ \E u \in Threads \ {t} : tpc[u] = "acquire")
    /\ UNCHANGED <<laterVars, stats, targs, tload, returned, snapshot, now, inserted,
                   indexVars, serveVars>>

\* the read half of "self.stats['total_..._requests'] += 1"
RecordRequestLoad(t) ==
    /\ tpc[t] = "load"
    /\ tload' = [tload EXCEPT ![t] = stats[TotalField(targs[t].type)]]
    /\ tpc' = [tpc EXCEPT ![t] = "store"]
    /\ UNCHANGED <<laterVars, stats, stats_lock, targs, returned, contended, snapshot, now, inserted,
                   indexVars, serveVars>>

\* the write half, and the rest of the locked block
RecordRequestStoreStep(t) ==
    /\ tpc[t] = "store"
    /\ stats' = RecordRequestStore(stats, tload[t], targs[t].type, targs[t].path,
                                   targs[t].remote_identity, targs[t].requested_at)
    /\ inserted' = Append(inserted, request_info_of(targs[t].type, targs[t].path,
                                targs[t].remote_identity, targs[t].requested_at))
    /\ tpc' = [tpc EXCEPT ![t] = "release"]
    /\ UNCHANGED <<laterVars, stats_lock, targs, tload, returned, contended, snapshot, now,
                   indexVars, serveVars>>

\* the locked block is left and _record_request returns
RecordRequestRelease(t) ==
    /\ tpc[t] = "release"
    /\ stats_lock' = Free
    /\ returned' = [returned EXCEPT ![targs[t].type] = @ + 1]
    /\ tpc' = [tpc EXCEPT ![t] = "idle"]
    /\ targs' = [targs EXCEPT ![t] = NoArgs]
    /\ tload' = [tload EXCEPT ![t] = 0]
    /\ UNCHANGED <<laterVars, stats, contended, snapshot, now, inserted, indexVars, serveVars>>

\* get_stats() called from another thread: the whole body runs under the lock
GetStats ==
    /\ LockAvailable(stats_lock)
    /\ snapshot' = get_stats(stats) @@
                    [taken |-> TRUE,
                     quiet |-> \A t \in Threads : tpc[t] = "idle",
                     returned |-> returned]
    /\ UNCHANGED <<laterVars, stats, stats_lock, tpc, targs, tload, returned, contended, now,
                   inserted, indexVars, serveVars>>

StatsNext ==
    \/ \E t \in Threads : RecordRequestCall(t)
    \/ \E t \in Threads : RecordRequestAcquire(t)
    \/ \E t \in Threads : RecordRequestLoad(t)
    \/ \E t \in Threads : RecordRequestStoreStep(t)
    \/ \E t \in Threads : RecordRequestRelease(t)
    \/ GetStats

SpecStats == StatsInit /\ [][StatsNext]_vars

------------------------------------------------------------------------------
(* The recent-request log over a long run of requests from one thread *)

\* _record_request as one step, stamped with the clock
Record(request_type, path, remote_identity) ==
    /\ stats' = _record_request(stats, request_type, path, remote_identity, now)
    /\ inserted' = Append(inserted,
                          request_info_of(request_type, path, remote_identity, now))

\* a page request is recorded; the clock moves on
LogRecordRequest ==
    /\ now < MaxInserts
    /\ Record("page", PagePathA, IdentityB)
    /\ now' = now + 1
    /\ UNCHANGED <<laterVars, stats_lock, tpc, targs, tload, returned, contended, snapshot,
                   indexVars, serveVars>>

\* reset_stats: _init_stats under the lock, which also writes the initial
\* structure to the stats file when one is configured (lines 142-143)
reset_stats ==
    /\ LockAvailable(stats_lock)
    /\ stats' = InitStats(now)
    /\ inserted' = <<>>
    /\ disk' = IF stats_file # <<>>
               THEN _init_stats_file(disk, disk_writable, name, now, now)
               ELSE disk
    /\ plog' = IF stats_file # <<>> THEN [NoWrite EXCEPT !.handled = plog.handled]
               ELSE plog
    /\ UNCHANGED <<lifeVars, sessionVars, stats_file, disk_writable, stats_lock, tpc, targs,
                   tload, returned, contended, snapshot, now, indexVars, serveVars>>

LogNext == LogRecordRequest \/ reset_stats

SpecLog == StatsInit /\ [][LogNext]_vars


------------------------------------------------------------------------------
(* Changes of the served trees, made by whoever maintains them while no    *)
(* rebuild is running                                                      *)

UnderPages(n) == n # <<>> /\ Head(n) = Pages

\* a change of a tree ends the run of scans over an unchanged tree
TreeChanged(n) ==
    /\ pagesLog' = IF UnderPages(n) THEN [pagesLog EXCEPT !.hist = <<>>] ELSE pagesLog
    /\ filesLog' = IF UnderPages(n) THEN filesLog ELSE [filesLog EXCEPT !.hist = <<>>]

CreateFile(n) ==
    /\ rpc = "idle"
    /\ fs[n].kind = "none"
    /\ fs' = [fs EXCEPT ![n] = FileOf(StaticPage)]
    /\ TreeChanged(n)
    /\ UNCHANGED <<laterVars, pagespath, filespath, servedpages, servedfiles, request_handlers,
                   table_lock, rpc, plan, statsVars, serveVars>>

RemoveFile(n) ==
    /\ rpc = "idle"
    /\ fs[n].kind = "file"
    /\ fs' = [fs EXCEPT ![n] = Absent]
    /\ TreeChanged(n)
    /\ UNCHANGED <<laterVars, pagespath, filespath, servedpages, servedfiles, request_handlers,
                   table_lock, rpc, plan, statsVars, serveVars>>

\* chmod of a directory: listing it is allowed or refused
SetListable(n, allowed) ==
    /\ rpc = "idle"
    /\ fs[n].kind = "dir"
    /\ fs[n].readable # allowed
    /\ fs' = [fs EXCEPT ![n].readable = allowed]
    /\ TreeChanged(n)
    /\ UNCHANGED <<laterVars, pagespath, filespath, servedpages, servedfiles, request_handlers,
                   table_lock, rpc, plan, statsVars, serveVars>>

------------------------------------------------------------------------------
(* register_pages and register_files, step by step, as another thread can  *)
(* observe them                                                            *)

\* the log keeps the indexes of the last two scans that ran to their end
Remember(hist, list) == IF hist = <<>> THEN <<list>> ELSE <<Last(hist), list>>

\* lines 69-70: the lock taken, the list replaced by an empty one; the scan
\* of line 71 then appends to it entry by entry
RegisterPagesBegin ==
    /\ rpc = "idle"
    /\ LockAvailable(table_lock)
    /\ table_lock' = RefreshThread
    /\ LET start == FreshIndex(servedpages)
           scan == _scan_pages(fs, pagespath, start)
       IN  /\ servedpages' = start
           /\ plan' = [todo |-> SubSeq(scan.list, Len(start) + 1, Len(scan.list)),
                       ok |-> scan.ok]
           /\ pagesLog' = [pagesLog EXCEPT
                              !.before = SetOf(servedpages),
                              !.target = IF scan.ok THEN SetOf(scan.list)
                                         ELSE SetOf(servedpages)]
    /\ rpc' = "scan_pages"
    /\ UNCHANGED <<laterVars, fs, pagespath, filespath, servedfiles, request_handlers, filesLog,
                   statsVars, serveVars>>

\* line 112: one path appended
ScanPagesAppend ==
    /\ rpc = "scan_pages"
    /\ plan.todo # <<>>
    /\ servedpages' = Append(servedpages, Head(plan.todo))
    /\ plan' = [plan EXCEPT !.todo = Tail(@)]
    /\ UNCHANGED <<laterVars, fs, pagespath, filespath, servedfiles, request_handlers, table_lock,
                   rpc, pagesLog, filesLog, statsVars, serveVars>>

\* the scan returns: the lock is released, the routes are registered next
ScanPagesReturn ==
    /\ rpc = "scan_pages"
    /\ plan.todo = <<>> /\ plan.ok
    /\ table_lock' = Free
    /\ rpc' = "register_pages"
    /\ plan' = NoPlan
    /\ pagesLog' = [pagesLog EXCEPT !.hist = Remember(@, servedpages)]
    /\ UNCHANGED <<laterVars, fs, pagespath, filespath, servedpages, servedfiles, request_handlers,
                   filesLog, statsVars, serveVars>>

\* os.listdir raised: the lock is released and register_pages raises
ScanPagesRaise ==
    /\ rpc = "scan_pages"
    /\ plan.todo = <<>> /\ ~plan.ok
    /\ table_lock' = Free
    /\ rpc' = "idle"
    /\ plan' = NoPlan
    /\ pagesLog' = [pagesLog EXCEPT !.hist = <<>>]
    /\ UNCHANGED <<laterVars, fs, pagespath, filespath, servedpages, servedfiles, request_handlers,
                   filesLog, statsVars, serveVars>>

\* lines 73-87
RegisterPagesRoutes ==
    /\ rpc = "register_pages"
    /\ request_handlers' = register_page_handlers(request_handlers, fs, pagespath, servedpages)
    /\ rpc' = "idle"
    /\ UNCHANGED <<laterVars, fs, pagespath, filespath, servedpages, servedfiles, table_lock, plan,
                   pagesLog, filesLog, statsVars, serveVars>>

\* lines 90-91, then the scan of line 92
RegisterFilesBegin ==
    /\ rpc = "idle"
    /\ LockAvailable(table_lock)
    /\ table_lock' = RefreshThread
    /\ LET start == FreshIndex(servedfiles)
           scan == _scan_files(fs, filespath, start)
       IN  /\ servedfiles' = start
           /\ plan' = [todo |-> SubSeq(scan.list, Len(start) + 1, Len(scan.list)),
                       ok |-> scan.ok]
           /\ filesLog' = [filesLog EXCEPT
                              !.before = SetOf(servedfiles),
                              !.target = IF scan.ok THEN SetOf(scan.list)
                                         ELSE SetOf(servedfiles)]
    /\ rpc' = "scan_files"
    /\ UNCHANGED <<laterVars, fs, pagespath, filespath, servedpages, request_handlers, pagesLog,
                   statsVars, serveVars>>

\* line 122: one path appended
ScanFilesAppend ==
    /\ rpc = "scan_files"
    /\ plan.todo # <<>>
    /\ servedfiles' = Append(servedfiles, Head(plan.todo))
    /\ plan' = [plan EXCEPT !.todo = Tail(@)]
    /\ UNCHANGED <<laterVars, fs, pagespath, filespath, servedpages, request_handlers, table_lock,
                   rpc, pagesLog, filesLog, statsVars, serveVars>>

ScanFilesReturn ==
    /\ rpc = "scan_files"
    /\ plan.todo = <<>> /\ plan.ok
    /\ table_lock' = Free
    /\ rpc' = "register_files"
    /\ plan' = NoPlan
    /\ filesLog' = [filesLog EXCEPT !.hist = Remember(@, servedfiles)]
    /\ UNCHANGED <<laterVars, fs, pagespath, filespath, servedpages, servedfiles, request_handlers,
                   pagesLog, statsVars, serveVars>>

ScanFilesRaise ==
    /\ rpc = "scan_files"
    /\ plan.todo = <<>> /\ ~plan.ok
    /\ table_lock' = Free
    /\ rpc' = "idle"
    /\ plan' = NoPlan
    /\ filesLog' = [filesLog EXCEPT !.hist = <<>>]
    /\ UNCHANGED <<laterVars, fs, pagespath, filespath, servedpages, servedfiles, request_handlers,
                   pagesLog, statsVars, serveVars>>

\* lines 94-102
RegisterFilesRoutes ==
    /\ rpc = "register_files"
    /\ request_handlers' = register_file_handlers(request_handlers, filespath, servedfiles)
    /\ rpc' = "idle"
    /\ UNCHANGED <<laterVars, fs, pagespath, filespath, servedpages, servedfiles, table_lock, plan,
                   pagesLog, filesLog, statsVars, serveVars>>

IndexInit ==
    /\ StatsConstructed
    /\ ThreadsAtDefaults
    /\ NoStatsFile
    /\ NoRequestYet(BaseEnv)
    /\ \E index \in {Absent, FileOf(StaticPage)} :
          IndexConstructed(TreeWith(index, FileOf(OtherPage), FileOf(NotesText)),
                           PagesRoot, FilesRoot)

IndexNext ==
    \/ \E n \in {IndexNode, NotesNode} : CreateFile(n)
    \/ \E n \in {IndexNode, NotesNode} : RemoveFile(n)
    \/ \E n \in {SubNode, FilesNode}, allowed \in BOOLEAN : SetListable(n, allowed)
    \/ RegisterPagesBegin
    \/ ScanPagesAppend
    \/ ScanPagesReturn
    \/ ScanPagesRaise
    \/ RegisterPagesRoutes
    \/ RegisterFilesBegin
    \/ ScanFilesAppend
    \/ ScanFilesReturn
    \/ ScanFilesRaise
    \/ RegisterFilesRoutes

SpecIndex == IndexInit /\ [][IndexNext]_vars

------------------------------------------------------------------------------
(* A request handled: the handler records the request, then serves it *)

LinkA == <<170, 1>>

Served == stats.total_page_requests + stats.total_file_requests

HandlerResult(h, path, data, link_id, remote_identity, launch) ==
    IF h = "serve_page"
    THEN serve_page(fs, environ, pagespath, path, data, link_id, remote_identity, launch)
    ELSE IF h = "serve_file" THEN serve_file(fs, filespath, path)
    ELSE serve_default_index

\* handler h called with these arguments, as the transport calls it
Handle(h, path, data, link_id, remote_identity, launch) ==
    /\ Record(IF h = "serve_file" THEN "file" ELSE "page", path, remote_identity)
    /\ request' = [handler |-> h, path |-> path, data |-> data, link_id |-> link_id,
                   remote_identity |-> remote_identity, requested_at |-> now,
                   fresh |-> pagesLog.hist # <<>>,
                   had_index |-> isfile(fs, join(pagespath, IndexMu))]
    /\ response' = HandlerResult(h, path, data, link_id, remote_identity, launch).response
    /\ opened' = HandlerResult(h, path, data, link_id, remote_identity, launch).opened
    /\ executed' = HandlerResult(h, path, data, link_id, remote_identity, launch).executed

------------------------------------------------------------------------------
(* The handlers called with any path a caller may hand them *)

DotDot == <<DOT, DOT>>
PageTraversal == PagePrefix \o <<SEP>> \o DotDot \o <<SEP>> \o EtcName \o <<SEP>> \o PasswdName
FileRoute == FilePrefix \o <<SEP>> \o NotesName
FileTraversal ==
    FilePrefix \o <<SEP>> \o DotDot \o <<SEP>> \o DotDot \o <<SEP>> \o EtcName
               \o <<SEP>> \o PasswdName

ServeInit ==
    /\ StatsConstructed
    /\ ThreadsAtDefaults
    /\ NoStatsFile
    /\ \E env \in {BaseEnv, HostEnv} : NoRequestYet(env)
    /\ \E index \in {Absent} \cup
                    {[FileOf(c) EXCEPT !.xbit = x, !.readable = r] :
                        c \in {StaticPage, EchoScript, EnvScript, FailScript},
                        x \in BOOLEAN,
                        r \in BOOLEAN},
          notes \in {FileOf(NotesText), Absent} :
          /\ fs = TreeWith(index, FileOf(OtherPage), notes)
          /\ pagespath = PagesRoot
          /\ filespath = FilesRoot
          \* the indexes as a constructor run earlier left them: a page or
          \* a file may have been removed or changed since
          /\ servedpages = _scan_pages(BaseTree, PagesRoot, <<>>).list
          /\ servedfiles = _scan_files(BaseTree, FilesRoot, <<>>).list
          /\ request_handlers =
                register_file_handlers(
                    register_page_handlers(NoHandlers, BaseTree, PagesRoot, servedpages),
                    FilesRoot, servedfiles)
          /\ table_lock = Free
          /\ rpc = "idle"
          /\ plan = NoPlan
          /\ pagesLog = [before |-> SetOf(servedpages), target |-> SetOf(servedpages),
                         hist |-> <<>>]
          /\ filesLog = [before |-> SetOf(servedfiles), target |-> SetOf(servedfiles),
                         hist |-> <<>>]

ServePageCall ==
    /\ Served < MaxServed
    /\ \E path \in {IndexRoute, PageTraversal},
          data \in {NoData, FieldXData, VarFieldData, BytesData},
          id \in {<<>>, IdentityA},
          launch \in BOOLEAN :
          Handle("serve_page", path, data, LinkA, id, launch)
    /\ UNCHANGED <<laterVars, stats_lock, tpc, targs, tload, returned, contended, snapshot, now,
                   environ, indexVars>>

ServeFileCall ==
    /\ Served < MaxServed
    /\ \E path \in {FileRoute, FileTraversal}, id \in {<<>>, IdentityA} :
          Handle("serve_file", path, NoData, LinkA, id, TRUE)
    /\ UNCHANGED <<laterVars, stats_lock, tpc, targs, tload, returned, contended, snapshot, now,
                   environ, indexVars>>

ServeNext == ServePageCall \/ ServeFileCall

SpecServe == ServeInit /\ [][ServeNext]_vars

------------------------------------------------------------------------------
(* Routes: rebuilds as whole calls, and requests dispatched by the          *)
(* destination to the handler registered for their path                    *)

register_pages ==
    /\ rpc = "idle"
    /\ LockAvailable(table_lock)
    /\ LET scan == _scan_pages(fs, pagespath, FreshIndex(servedpages))
       IN  /\ servedpages' = scan.list
           /\ request_handlers' =
                 IF scan.ok
                 THEN register_page_handlers(request_handlers, fs, pagespath, scan.list)
                 ELSE request_handlers
           /\ pagesLog' = [before |-> SetOf(servedpages),
                           target |-> IF scan.ok THEN SetOf(scan.list)
                                      ELSE SetOf(servedpages),
                           hist |-> IF scan.ok THEN Remember(pagesLog.hist, scan.list)
                                    ELSE <<>>]
    /\ UNCHANGED <<laterVars, fs, pagespath, filespath, servedfiles, table_lock, rpc, plan, filesLog,
                   statsVars, serveVars>>

register_files ==
    /\ rpc = "idle"
    /\ LockAvailable(table_lock)
    /\ LET scan == _scan_files(fs, filespath, FreshIndex(servedfiles))
       IN  /\ servedfiles' = scan.list
           /\ request_handlers' =
                 IF scan.ok
                 THEN register_file_handlers(request_handlers, filespath, scan.list)
                 ELSE request_handlers
           /\ filesLog' = [before |-> SetOf(servedfiles),
                           target |-> IF scan.ok THEN SetOf(scan.list)
                                      ELSE SetOf(servedfiles),
                           hist |-> IF scan.ok THEN Remember(filesLog.hist, scan.list)
                                    ELSE <<>>]
    /\ UNCHANGED <<laterVars, fs, pagespath, filespath, servedpages, table_lock, rpc, plan, pagesLog,
                   statsVars, serveVars>>

\* the destination receives a request for `path`: the handler registered
\* for that path is called with it; a path with no handler gets no response
Dispatch(path) ==
    /\ Served < MaxServed
    /\ IF path \in DOMAIN request_handlers
       THEN Handle(request_handlers[path], path, NoData, LinkA, <<>>, TRUE)
       ELSE /\ request' = [NoRequest EXCEPT !.path = path,
                                            !.fresh = pagesLog.hist # <<>>,
                                            !.had_index = isfile(fs, join(pagespath, IndexMu))]
            /\ response' = NoResponse
            /\ opened' = {}
            /\ executed' = NoExecution
            /\ UNCHANGED <<stats, inserted>>
    /\ UNCHANGED <<laterVars, stats_lock, tpc, targs, tload, returned, contended, snapshot, now,
                   environ, indexVars>>

RoutesInit ==
    /\ StatsConstructed
    /\ ThreadsAtDefaults
    /\ NoStatsFile
    /\ NoRequestYet(BaseEnv)
    /\ \E index \in {Absent, FileOf(StaticPage)}, proot \in {PagesRoot, PagesRootSlash} :
          IndexConstructed(TreeWith(index, FileOf(OtherPage), FileOf(NotesText)),
                           proot, FilesRoot)

RoutesNext ==
    \/ CreateFile(IndexNode)
    \/ RemoveFile(IndexNode)
    \/ register_pages
    \/ register_files
    \/ \E path \in {IndexRoute, PagePrefix \o IndexMu} : Dispatch(path)

SpecRoutes == RoutesInit /\ [][RoutesNext]_vars

------------------------------------------------------------------------------
(* The announce loop                                                       *)

\* the clock when the node is constructed: later than any interval of the
\* model after the epoch, as time.time() is
StartClock == 10
\* seconds the clock advances in the loop specifications
MaxClock == 3

ClockAdvance ==
    /\ now < StartClock + MaxClock
    /\ now' = now + 1
    /\ UNCHANGED <<stats, stats_lock, tpc, targs, tload, returned, contended, snapshot,
                   inserted, indexVars, serveVars, lifeVars, persistVars,
                   sessionVars>>

\* line 361: the loop condition
AnnounceLoopTest ==
    /\ announce_pc = "test"
    /\ LoopContinues(stop_event) => now < StartClock + MaxClock
    /\ IF LoopContinues(stop_event)
       THEN /\ announce_pc' = "body"
            /\ late' = IF stop_event THEN [late EXCEPT !.announce = Bump(@)] ELSE late
       ELSE /\ announce_pc' = "ended"
            /\ late' = late
    /\ UNCHANGED <<stop_event, name, announce_interval, page_refresh_interval,
                   file_refresh_interval, last_announce, last_page_refresh,
                   last_file_refresh, refresh_pc, shutdown_pc, destination, atick, rtick,
                   wake, attempts, statsVars, indexVars, serveVars, persistVars,
                   sessionVars>>

\* lines 362-371: one pass of the body up to the sleep; the announce call
\* returns or raises
AnnounceLoopBody ==
    /\ announce_pc = "body"
    /\ LET due == AnnounceDue(now, last_announce, announce_interval)
       IN  /\ atick' = [taken |-> TRUE, first |-> ~atick.taken, clock |-> now,
                        last |-> last_announce, called |-> due,
                        app_data |-> IF due THEN announce_app_data(name)
                                     ELSE NoAnnounceTick.app_data]
           /\ \E outcome \in IF due THEN {"ok", "raise"} ELSE {"ok"} :
                 /\ last_announce' = IF due /\ outcome = "ok" THEN now ELSE last_announce
                 /\ attempts' = IF due
                                THEN [attempts EXCEPT
                                         !.announce = Attempt(@, now, outcome = "ok")]
                                ELSE attempts
                 /\ announce_pc' = PassEnds(outcome = "raise")
                 /\ wake' = IF outcome = "raise" THEN wake
                            ELSE [wake EXCEPT !.announce = WakeTime(now)]
    /\ UNCHANGED <<stop_event, name, announce_interval, page_refresh_interval,
                   file_refresh_interval, last_page_refresh, last_file_refresh,
                   refresh_pc, shutdown_pc, destination, rtick, late,
                   statsVars, indexVars, serveVars, persistVars,
                   sessionVars>>

\* line 369: time.sleep(1) returns; a second or more has passed since it
\* was called
AnnounceLoopSleep ==
    /\ announce_pc = "sleep"
    /\ now' = IF now < wake.announce THEN wake.announce ELSE now
    /\ announce_pc' = "test"
    /\ UNCHANGED <<stop_event, name, announce_interval, page_refresh_interval,
                   file_refresh_interval, last_announce, last_page_refresh,
                   last_file_refresh, refresh_pc, shutdown_pc, destination, atick, rtick,
                   late, wake, attempts, stats, stats_lock, tpc, targs, tload, returned,
                   contended, snapshot, inserted, indexVars, serveVars, persistVars,
                   sessionVars>>

\* line 528 of shutdown: the stop event set
ShutdownBegin ==
    /\ shutdown_pc = "idle"
    /\ stop_event' = TRUE
    /\ shutdown_pc' = "join_announce"
    /\ UNCHANGED <<name, announce_interval, page_refresh_interval,
                   file_refresh_interval, last_announce, last_page_refresh,
                   last_file_refresh, announce_pc, refresh_pc, destination, atick, rtick,
                   late, wake, attempts, statsVars, indexVars, serveVars, persistVars,
                   sessionVars>>

AnnounceInit ==
    /\ StatsConstructedAt(StartClock)
    /\ NoRequestYet(BaseEnv)
    /\ IndexConstructed(BaseTree, PagesRoot, FilesRoot)
    /\ NoStatsFile
    /\ \E node_name \in {<<>>, <<"node">>}, a_interval \in {1, 2} :
          ThreadsConstructed(StartClock, node_name, a_interval, 0, 0, FALSE)

AnnounceNext ==
    \/ ClockAdvance
    \/ AnnounceLoopTest
    \/ AnnounceLoopBody
    \/ AnnounceLoopSleep
    \/ ShutdownBegin

SpecAnnounce == AnnounceInit /\ [][AnnounceNext]_vars

------------------------------------------------------------------------------
(* The refresh loop                                                        *)

\* line 374: the loop condition
RefreshLoopTest ==
    /\ refresh_pc = "test"
    /\ LoopContinues(stop_event) => now < StartClock + MaxClock
    /\ IF LoopContinues(stop_event)
       THEN /\ refresh_pc' = "body"
            /\ late' = IF stop_event THEN [late EXCEPT !.refresh = Bump(@)] ELSE late
       ELSE /\ refresh_pc' = "ended"
            /\ late' = late
    /\ UNCHANGED <<stop_event, name, announce_interval, page_refresh_interval,
                   file_refresh_interval, last_announce, last_page_refresh,
                   last_file_refresh, announce_pc, shutdown_pc, destination, atick, rtick,
                   wake, attempts, statsVars, indexVars, serveVars, persistVars,
                   sessionVars>>

\* lines 375-385: one pass of the body up to the sleep.  register_pages and register_files
\* run as whole calls; an exception raised by either ends the pass at the
\* handler of line 384.
RefreshLoopBody ==
    /\ refresh_pc = "body"
    /\ rpc = "idle"
    /\ LockAvailable(table_lock)
    /\ \E pscan \in {_scan_pages(fs, pagespath, FreshIndex(servedpages))},
          fscan \in {_scan_files(fs, filespath, FreshIndex(servedfiles))} :
       LET page_due == RefreshDue(page_refresh_interval, now, last_page_refresh)
           page_raised == page_due /\ ~pscan.ok
           file_due == ~page_raised
                       /\ RefreshDue(file_refresh_interval, now, last_file_refresh)
           handlers1 == IF page_due /\ pscan.ok
                        THEN register_page_handlers(request_handlers, fs, pagespath,
                                                    pscan.list)
                        ELSE request_handlers
       IN  /\ servedpages' = IF page_due THEN pscan.list ELSE servedpages
           /\ servedfiles' = IF file_due THEN fscan.list ELSE servedfiles
           /\ request_handlers' =
                 IF file_due /\ fscan.ok
                 THEN register_file_handlers(handlers1, filespath, fscan.list)
                 ELSE handlers1
           /\ last_page_refresh' = IF page_due /\ pscan.ok THEN now ELSE last_page_refresh
           /\ last_file_refresh' = IF file_due /\ fscan.ok THEN now ELSE last_file_refresh
           /\ pagesLog' = IF ~page_due THEN pagesLog
                          ELSE [before |-> SetOf(servedpages),
                                target |-> IF pscan.ok THEN SetOf(pscan.list)
                                           ELSE SetOf(servedpages),
                                hist |-> IF pscan.ok
                                         THEN Remember(pagesLog.hist, pscan.list)
                                         ELSE <<>>]
           /\ filesLog' = IF ~file_due THEN filesLog
                          ELSE [before |-> SetOf(servedfiles),
                                target |-> IF fscan.ok THEN SetOf(fscan.list)
                                           ELSE SetOf(servedfiles),
                                hist |-> IF fscan.ok
                                         THEN Remember(filesLog.hist, fscan.list)
                                         ELSE <<>>]
           /\ rtick' = [taken |-> TRUE, clock |-> now, last_page |-> last_page_refresh,
                        last_file |-> last_file_refresh, pages_called |-> page_due,
                        files_called |-> file_due,
                        raised |-> page_raised \/ (file_due /\ ~fscan.ok)]
           /\ attempts' =
                 [attempts EXCEPT
                     !.pages = IF page_due THEN Attempt(@, now, pscan.ok) ELSE @,
                     !.files = IF file_due THEN Attempt(@, now, fscan.ok) ELSE @]
           /\ refresh_pc' = PassEnds(page_raised \/ (file_due /\ ~fscan.ok))
           /\ wake' = IF page_raised \/ (file_due /\ ~fscan.ok) THEN wake
                      ELSE [wake EXCEPT !.refresh = WakeTime(now)]
    /\ UNCHANGED <<stop_event, name, announce_interval, page_refresh_interval,
                   file_refresh_interval, last_announce, announce_pc, shutdown_pc,
                   destination, atick, late, fs, pagespath, filespath, table_lock, rpc,
                   plan, statsVars, serveVars, persistVars,
                   sessionVars>>

\* line 383: time.sleep(1) returns
RefreshLoopSleep ==
    /\ refresh_pc = "sleep"
    /\ now' = IF now < wake.refresh THEN wake.refresh ELSE now
    /\ refresh_pc' = "test"
    /\ UNCHANGED <<stop_event, name, announce_interval, page_refresh_interval,
                   file_refresh_interval, last_announce, last_page_refresh,
                   last_file_refresh, announce_pc, shutdown_pc, destination, atick, rtick,
                   late, wake, attempts, stats, stats_lock, tpc, targs, tload, returned,
                   contended, snapshot, inserted, indexVars, serveVars, persistVars,
                   sessionVars>>

RefreshInit ==
    /\ StatsConstructedAt(StartClock)
    /\ NoRequestYet(BaseEnv)
    /\ IndexConstructed(BaseTree, PagesRoot, FilesRoot)
    /\ NoStatsFile
    /\ \E p_interval \in {0, 1, 2}, f_interval \in {0, 1, 2} :
          ThreadsConstructed(StartClock, <<>>, 360, p_interval, f_interval, FALSE)

RefreshNext ==
    \/ ClockAdvance
    \/ RefreshLoopTest
    \/ RefreshLoopBody
    \/ RefreshLoopSleep
    \/ \E allowed \in BOOLEAN : SetListable(SubNode, allowed)
    \/ ShutdownBegin

SpecRefresh == RefreshInit /\ [][RefreshNext]_vars

------------------------------------------------------------------------------
(* shutdown, with both loops running                                       *)

\* line 530: self._announce_thread.join(timeout=5)
JoinAnnounceThread ==
    /\ shutdown_pc = "join_announce"
    /\ \E outcome \in join_outcomes(announce_pc = "ended") :
          shutdown_pc' = AfterJoin(outcome, "join_refresh")
    /\ UNCHANGED <<stop_event, name, announce_interval, page_refresh_interval,
                   file_refresh_interval, last_announce, last_page_refresh,
                   last_file_refresh, announce_pc, refresh_pc, destination, atick, rtick,
                   late, wake, attempts, statsVars, indexVars, serveVars, persistVars,
                   sessionVars>>

\* line 531: self._refresh_thread.join(timeout=5)
JoinRefreshThread ==
    /\ shutdown_pc = "join_refresh"
    /\ \E outcome \in join_outcomes(refresh_pc = "ended") :
          shutdown_pc' = AfterJoin(outcome, "close")
    /\ UNCHANGED <<stop_event, name, announce_interval, page_refresh_interval,
                   file_refresh_interval, last_announce, last_page_refresh,
                   last_file_refresh, announce_pc, refresh_pc, destination, atick, rtick,
                   late, wake, attempts, statsVars, indexVars, serveVars, persistVars,
                   sessionVars>>

\* lines 534-538: the destination closed when it has a close method; an
\* error raised by close is caught and logged
CloseDestination ==
    /\ shutdown_pc = "close"
    /\ destination' = IF destination.has_close
                      THEN [destination EXCEPT !.close_calls = Bump(@)]
                      ELSE destination
    /\ shutdown_pc' = "returned"
    /\ UNCHANGED <<stop_event, name, announce_interval, page_refresh_interval,
                   file_refresh_interval, last_announce, last_page_refresh,
                   last_file_refresh, announce_pc, refresh_pc, atick, rtick, late,
                   wake, attempts, statsVars, indexVars, serveVars, persistVars,
                   sessionVars>>

\* The node was constructed at StartClock; shutdown is called at once or
\* two seconds later, the statistics having just been reset (reset_stats).
\* The clock stands still while shutdown runs.
ShutdownInit ==
    /\ \E clock \in {StartClock, StartClock + 2} : StatsConstructedAt(clock)
    /\ NoRequestYet(BaseEnv)
    /\ IndexConstructed(BaseTree, PagesRoot, FilesRoot)
    /\ NoStatsFile
    /\ \E has_close \in BOOLEAN :
          ThreadsConstructed(StartClock, <<>>, 360, 1, 0, has_close)

ShutdownNext ==
    \/ AnnounceLoopTest
    \/ AnnounceLoopBody
    \/ AnnounceLoopSleep
    \/ RefreshLoopTest
    \/ RefreshLoopBody
    \/ RefreshLoopSleep
    \/ ShutdownBegin
    \/ JoinAnnounceThread
    \/ JoinRefreshThread
    \/ CloseDestination

\* the refresh thread moves on: its loop test is evaluated, or the calls of
\* its pass return or raise and the pass ends
RefreshLoopStep ==
    \/ refresh_pc = "test" /\ refresh_pc' \in {"body", "ended"}
    \/ refresh_pc = "body" /\ refresh_pc' \in {"test", "sleep"}
    \/ refresh_pc = "sleep" /\ refresh_pc' = "test"

\* Both threads are scheduled and their calls return; the caller of shutdown
\* keeps running once it has called it.
SpecShutdown ==
    /\ ShutdownInit
    /\ [][ShutdownNext]_vars
    /\ WF_vars(AnnounceLoopTest \/ AnnounceLoopBody \/ AnnounceLoopSleep)
    /\ WF_refresh_pc(RefreshLoopStep)
    /\ WF_vars(JoinAnnounceThread \/ JoinRefreshThread \/ CloseDestination)

------------------------------------------------------------------------------
(* Both loops running while announces fail and a directory is unreadable   *)

LoopsInit ==
    /\ StatsConstructedAt(StartClock)
    /\ NoRequestYet(BaseEnv)
    /\ IndexConstructed(BaseTree, PagesRoot, FilesRoot)
    /\ NoStatsFile
    /\ \E f_interval \in {0, 1} :
          ThreadsConstructed(StartClock, <<>>, 1, 1, f_interval, FALSE)

LoopsNext ==
    \/ AnnounceLoopTest
    \/ AnnounceLoopBody
    \/ AnnounceLoopSleep
    \/ RefreshLoopTest
    \/ RefreshLoopBody
    \/ RefreshLoopSleep
    \/ \E n \in {SubNode, FilesNode}, allowed \in BOOLEAN : SetListable(n, allowed)
    \/ ShutdownBegin

SpecLoops == LoopsInit /\ [][LoopsNext]_vars
------------------------------------------------------------------------------
(* A node with a stats file: every connection and request is appended to it *)

\* connections and requests handled in the stats-file specification
MaxEvents == 2

StatsPath == <<SEP, "stats", ".json">>
LinkB == <<187, 2>>

\* the file a run of n connections and n file requests leaves behind
OldRequests(n) == [i \in 1..n |-> request_info_of("file", FilePathA, <<>>, i)]
OldConnections(n) == [i \in 1..n |-> connection_info_of(LinkB, <<>>, i)]
FileAfter(n) ==
    [initial_stats(<<>>, 0, 0) EXCEPT
        !.connections = KeepLast(OldConnections(n), MaxFileEvents),
        !.requests = KeepLast(OldRequests(n), MaxFileEvents),
        !.summary = [total_connections |-> n, total_page_requests |-> 0,
                     total_file_requests |-> n, last_updated |-> n]]

\* what another process can leave at the path of the stats file
ForeignFiles ==
    {MissingFile, Unparsed("notjson"), Unparsed("notutf8"), EmptyObject,
     FileAfter(MaxFileEvents - 1), FileAfter(MaxFileEvents)}

\* the constructor with stats_file given (lines 32-62): _init_stats writes
\* the initial structure over whatever the path held
PersistInit ==
    /\ StatsConstructedAt(StartClock)
    /\ ThreadsConstructed(StartClock, <<>>, 360, 0, 0, FALSE)
    /\ IndexConstructed(BaseTree, PagesRoot, FilesRoot)
    /\ NoRequestYet(BaseEnv)
    /\ stats_file = StatsPath
    /\ disk_writable \in BOOLEAN
    /\ \E found \in {MissingFile, FileAfter(MaxFileEvents)} :
          disk = _init_stats_file(found, disk_writable, <<>>, StartClock, StartClock)
    /\ plog = NoWrite

EventsHandled == plog.handled.connections + plog.handled.requests

\* the call of _write_stats_event that ends a handler's locked block
WriteEvent(event_type, event_data) ==
    LET w == _write_stats_event(stats_file, disk, disk_writable, event_type,
                                event_data, name, stats.start_time, now)
    IN  /\ disk' = w.disk
        /\ plog' = [called |-> TRUE, before |-> disk, event_type |-> event_type,
                    event |-> event_data, reinit |-> w.reinit, wrote |-> w.wrote,
                    handled |->
                        IF event_type = "connection"
                        THEN [plog.handled EXCEPT !.connections = @ + 1]
                        ELSE [plog.handled EXCEPT !.requests = @ + 1]]

\* on_connect (lines 303-350), called by the transport for a link that
\* has just been established
on_connect(link_id, remote_identity) ==
    /\ EventsHandled < MaxEvents
    /\ LockAvailable(stats_lock)
    /\ link_id \notin links
    /\ stats' = ConnectStore(stats, link_id, remote_identity, now)
    /\ WriteEvent("connection", connection_info_of(link_id, remote_identity, now))
    /\ links' = links \cup {link_id}
    /\ now' = now + 1
    /\ UNCHANGED <<lifeVars, saving, calls, stats_file, disk_writable, stats_lock, tpc, targs, tload,
                   returned, contended, snapshot, inserted, indexVars, serveVars>>

\* _record_request (lines 220-273), called by a page or file handler
PersistRecordRequest ==
    /\ EventsHandled < MaxEvents
    /\ \E ty \in {"page", "file"} :
          LET path == IF ty = "page" THEN PagePathA ELSE FilePathA
          IN  /\ Record(ty, path, IdentityA)
              /\ WriteEvent("request", request_info_of(ty, path, IdentityA, now))
    /\ now' = now + 1
    /\ UNCHANGED <<lifeVars, stats_file, disk_writable, stats_lock, tpc, targs, tload,
                   returned, contended, snapshot, sessionVars, indexVars, serveVars>>

\* _on_link_closed (lines 352-358), the callback on_connect set on the
\* link (line 350), called by the transport when that link is closed
_on_link_closed(link_id) ==
    /\ LockAvailable(stats_lock)
    /\ link_id \in links
    /\ stats' = LinkClosedStore(stats, link_id)
    /\ links' = links \ {link_id}
    /\ UNCHANGED <<lifeVars, persistVars, saving, calls, stats_lock, tpc, targs, tload, returned,
                   contended, snapshot, now, inserted, indexVars, serveVars>>

\* the file removed, damaged or replaced from outside the process
FileReplaced ==
    /\ \E d \in ForeignFiles : disk' = d
    /\ plog' = [NoWrite EXCEPT !.handled = plog.handled]
    /\ UNCHANGED <<lifeVars, sessionVars, stats_file, disk_writable, statsVars, indexVars, serveVars>>

\* the directory of the file made read-only, or writable again
SetWritable ==
    /\ disk_writable' = ~disk_writable
    /\ plog' = [NoWrite EXCEPT !.handled = plog.handled]
    /\ UNCHANGED <<lifeVars, sessionVars, stats_file, disk, statsVars, indexVars, serveVars>>

PersistNext ==
    \/ \E link_id \in {LinkA, LinkB}, remote_identity \in {<<>>, IdentityA} :
          on_connect(link_id, remote_identity)
    \/ PersistRecordRequest
    \/ \E link_id \in {LinkA, LinkB} : _on_link_closed(link_id)
    \/ FileReplaced
    \/ SetWritable

SpecPersist == PersistInit /\ [][PersistNext]_vars
------------------------------------------------------------------------------
(* Request threads, link callbacks, reset_stats and save_stats_to_file     *)
(* running against each other                                              *)

\* line 492 of save_stats_to_file: stats = self.get_stats(), which takes
\* and releases the lock
SaveStatsGet ==
    /\ saving.pc \in {"idle", "written"}
    /\ LockAvailable(stats_lock)
    /\ saving' = [pc |-> "copy", stats |-> get_stats(stats), doc |-> NoDocument]
    /\ UNCHANGED <<lifeVars, persistVars, links, calls, statsVars, indexVars, serveVars>>

\* lines 500-511: under the lock again, the tallies are copied from
\* self.stats into the mapping got before, and the result is written
SaveStatsCopy ==
    /\ saving.pc = "copy"
    /\ LockAvailable(stats_lock)
    /\ saving' = [saving EXCEPT
                     !.pc = "written",
                     !.doc = [written |-> TRUE,
                              total_page_requests |-> saving.stats.total_page_requests,
                              total_file_requests |-> saving.stats.total_file_requests,
                              page_requests_by_path |-> stats.page_requests_by_path,
                              file_requests_by_path |-> stats.file_requests_by_path,
                              requests_by_peer |-> stats.requests_by_peer]]
    /\ UNCHANGED <<lifeVars, persistVars, links, calls, statsVars, indexVars, serveVars>>

\* calls of _record_request started in this specification
MaxTallyCalls == 2

\* an anonymous page or file request arrives on thread t
TallyRecordRequestCall(t) ==
    /\ CallsStarted < MaxTallyCalls
    /\ \E ty \in {"page", "file"} : RecordRequestCallBy(t, ty, <<>>)

TallyNext ==
    \/ \E t \in Threads : TallyRecordRequestCall(t)
    \/ \E t \in Threads : RecordRequestAcquire(t)
    \/ \E t \in Threads : RecordRequestLoad(t)
    \/ \E t \in Threads : RecordRequestStoreStep(t)
    \/ \E t \in Threads : RecordRequestRelease(t)
    \/ reset_stats
    \/ on_connect(LinkA, <<>>)
    \/ _on_link_closed(LinkA)
    \/ SaveStatsGet
    \/ SaveStatsCopy

SpecTally == StatsInit /\ [][TallyNext]_vars

------------------------------------------------------------------------------
(* A node with a stats file that nothing else touches: connections,        *)
(* requests and resets                                                     *)

\* the stats file can be written, and was created by the constructor
SessionInit ==
    /\ PersistInit
    /\ disk_writable

SessionNext ==
    \/ \E link_id \in {LinkA, LinkB}, remote_identity \in {<<>>, IdentityA} :
          on_connect(link_id, remote_identity)
    \/ \E link_id \in {LinkA, LinkB} : _on_link_closed(link_id)
    \/ PersistRecordRequest
    \/ reset_stats

SpecSession == SessionInit /\ [][SessionNext]_vars

------------------------------------------------------------------------------
(* The stats lock and the route-table lock as the methods take them        *)

\* "with lock:" around a body: the lock taken, the lock steps of the body,
\* the lock released
Locked(lock, body) ==
    <<[do |-> "acquire", lock |-> lock]>> \o body \o <<[do |-> "release", lock |-> lock]>>

\* "with self._stats_lock:" as every method has it: what runs inside
\* (_write_stats_event, _init_stats and _init_stats_file,
\* _calculate_requests_per_hour, _format_duration) takes no lock
StatsBlock == Locked("stats", <<>>)
\* "with self._lock:" of register_pages and register_files: the list is
\* emptied and the scan runs inside it
TableBlock == Locked("table", <<>>)

Ops == {"serve_page", "serve_file", "serve_default_index", "on_connect",
        "_on_link_closed", "get_stats", "print_stats", "save_stats_to_file",
        "reset_stats", "register_pages", "register_files", "_refresh_loop"}

\* every method takes the stats lock again inside its locked block
ProgramReentrant(op) == Locked("stats", StatsBlock)

\* the lock steps of one call of a method, in the order it makes them
Program(op) ==
    CASE op \in {"serve_page", "serve_file", "serve_default_index"} -> StatsBlock
      [] op \in {"on_connect", "_on_link_closed", "reset_stats"} -> StatsBlock
      [] op \in {"get_stats", "print_stats"} -> StatsBlock
      [] op = "save_stats_to_file" -> StatsBlock \o StatsBlock
      [] op \in {"register_pages", "register_files"} -> TableBlock
      [] op = "_refresh_loop" -> TableBlock \o TableBlock

LockOwner(lock) == IF lock = "stats" THEN stats_lock ELSE table_lock
NextStep(t) == Program(calls[t].op)[calls[t].pc]
InCall(t) == calls[t].op # "none" /\ calls[t].pc <= Len(Program(calls[t].op))

\* thread t enters a method
LockCall(t) ==
    /\ calls[t].op = "none"
    /\ \E op \in Ops : calls' = [calls EXCEPT ![t] = [op |-> op, pc |-> 1]]
    /\ UNCHANGED <<lifeVars, persistVars, links, saving, statsVars, indexVars, serveVars>>

\* thread t takes the lock it has come to; threading.Lock is not
\* reentrant, so it waits while anyone, itself included, holds the lock
LockAcquire(t) ==
    /\ InCall(t)
    /\ NextStep(t).do = "acquire"
    /\ LockAvailable(LockOwner(NextStep(t).lock))
    /\ stats_lock' = IF NextStep(t).lock = "stats" THEN t ELSE stats_lock
    /\ table_lock' = IF NextStep(t).lock = "table" THEN t ELSE table_lock
    /\ calls' = [calls EXCEPT ![t].pc = @ + 1]
    /\ UNCHANGED <<lifeVars, persistVars, links, saving, stats, tpc, targs, tload,
                   returned, contended, snapshot, now, inserted, fs, pagespath,
                   filespath, servedpages, servedfiles, request_handlers, rpc, plan,
                   pagesLog, filesLog, serveVars>>

\* the end of a "with" block
LockRelease(t) ==
    /\ InCall(t)
    /\ NextStep(t).do = "release"
    /\ stats_lock' = IF NextStep(t).lock = "stats" THEN Free ELSE stats_lock
    /\ table_lock' = IF NextStep(t).lock = "table" THEN Free ELSE table_lock
    /\ calls' = [calls EXCEPT ![t].pc = @ + 1]
    /\ UNCHANGED <<lifeVars, persistVars, links, saving, stats, tpc, targs, tload,
                   returned, contended, snapshot, now, inserted, fs, pagespath,
                   filespath, servedpages, servedfiles, request_handlers, rpc, plan,
                   pagesLog, filesLog, serveVars>>

\* the method returns
LockReturn(t) ==
    /\ calls[t].op # "none"
    /\ calls[t].pc > Len(Program(calls[t].op))
    /\ calls' = [calls EXCEPT ![t] = NoCall]
    /\ UNCHANGED <<lifeVars, persistVars, links, saving, statsVars, indexVars, serveVars>>

LocksNext ==
    \/ \E t \in AllThreads : LockCall(t)
    \/ \E t \in AllThreads : LockAcquire(t)
    \/ \E t \in AllThreads : LockRelease(t)
    \/ \E t \in AllThreads : LockReturn(t)

SpecLocks == StatsInit /\ [][LocksNext]_vars
------------------------------------------------------------------------------
(* Claims about the statistics *)

\* C1: once N concurrent _record_request('page', ...) calls have all returned
\* (no reset in between), get_stats() reports total_page_requests = N: both a
\* get_stats() result obtained while no call was in flight and the counter
\* itself in every such state equal the number of page calls that returned.
C1_NoLostUpdate ==
    /\ (snapshot.taken /\ snapshot.quiet)
          => snapshot.total_page_requests = snapshot.returned.page
    /\ (\A t \in Threads : tpc[t] = "idle")
          => get_stats(stats).total_page_requests = returned.page

\* three page calls from two threads that competed for the lock, all counted
C1_Witness ==
    /\ snapshot.taken /\ snapshot.quiet
    /\ contended
    /\ snapshot.returned.page = 3
    /\ snapshot.total_page_requests = 3

\* the last n entries of a sequence
LastN(s, n) == IF Len(s) <= n THEN s ELSE SubSeq(s, Len(s) - n + 1, Len(s))

\* C4: the recent-request log never holds more than its capacity (100); it
\* is the most recent entries in insertion order, so once more entries than
\* the capacity were inserted the first inserted is absent and the last
\* inserted is present.
C4_BoundedRecentLog ==
    /\ Len(stats.recent_requests) <= RecentMaxLen
    /\ stats.recent_requests = LastN(inserted, RecentMaxLen)
    /\ Len(inserted) > RecentMaxLen =>
          /\ inserted[1] \notin SetOf(stats.recent_requests)
          /\ Last(inserted) = Last(stats.recent_requests)

\* capacity + 1 insertions: the log is full, the first entry gone, the last there
C4_Witness ==
    /\ Len(inserted) = RecentMaxLen + 1
    /\ Len(stats.recent_requests) = RecentMaxLen
    /\ inserted[1] \notin SetOf(stats.recent_requests)
    /\ stats.recent_requests[RecentMaxLen] = inserted[RecentMaxLen + 1]
    /\ stats.recent_requests[1] = inserted[2]


\* the sum of the values of a mapping, and of one field of its buckets
RECURSIVE SumOf(_)
SumOf(d) ==
    IF DOMAIN d = {} THEN 0
    ELSE LET k == CHOOSE x \in DOMAIN d : TRUE
         IN  d[k] + SumOf([x \in DOMAIN d \ {k} |-> d[x]])
BucketSum(d, field) == SumOf([k \in DOMAIN d |-> d[k][field]])

\* C26: whenever the stats lock is free, total_page_requests equals the sum
\* of page_requests_by_path, of the hourly "pages" buckets and of the daily
\* "pages" buckets, the same holds for files, and the sum of
\* requests_by_peer equals total_page_requests + total_file_requests.
C26_TalliesAgreeWithTotals ==
    stats_lock = Free =>
        /\ stats.total_page_requests = SumOf(stats.page_requests_by_path)
        /\ stats.total_page_requests = BucketSum(stats.hourly_stats, "pages")
        /\ stats.total_page_requests = BucketSum(stats.daily_stats, "pages")
        /\ stats.total_file_requests = SumOf(stats.file_requests_by_path)
        /\ stats.total_file_requests = BucketSum(stats.hourly_stats, "files")
        /\ stats.total_file_requests = BucketSum(stats.daily_stats, "files")
        /\ SumOf(stats.requests_by_peer) =
              stats.total_page_requests + stats.total_file_requests

\* the lock is free after a page request and a file request by threads
\* that competed for the lock, following a reset that discarded an earlier
\* connection
C26_Witness ==
    /\ stats_lock = Free
    /\ contended
    /\ stats.total_page_requests = 1
    /\ stats.total_file_requests = 1
    /\ stats.total_connections = 0
    /\ plog.handled.connections = 1

\* C27: the document save_stats_to_file writes is a snapshot of one
\* instant: its total_page_requests is the sum of its page_requests_by_path
\* and its total_file_requests the sum of its file_requests_by_path.
C27_SavedDocumentIsConsistent ==
    saving.doc.written =>
        /\ saving.doc.total_page_requests = SumOf(saving.doc.page_requests_by_path)
        /\ saving.doc.total_file_requests = SumOf(saving.doc.file_requests_by_path)

\* thread t has come to take a lock, and which one
Wants(t, lock) ==
    InCall(t) /\ NextStep(t).do = "acquire" /\ NextStep(t).lock = lock
Waits(t) == \E lock \in {"stats", "table"} : Wants(t, lock) /\ LockOwner(lock) # Free

\* C28: no thread comes to take the stats lock (or the route-table lock)
\* while it holds that lock itself; no thread holds the route-table lock
\* and the stats lock at the same time; and a thread that waits for a lock
\* waits for a thread that is not itself waiting, so no set of calls is
\* deadlocked.
C28_NoDeadlock ==
    /\ \A t \in AllThreads, lock \in {"stats", "table"} :
          Wants(t, lock) => LockOwner(lock) # t
    /\ ~(stats_lock # Free /\ stats_lock = table_lock)
    /\ \A t \in AllThreads, lock \in {"stats", "table"} :
          (Wants(t, lock) /\ LockOwner(lock) # Free) => ~Waits(LockOwner(lock))

\* save_stats_to_file is inside its second locked block while a request
\* handler waits for the stats lock and a rebuild holds the route-table lock
C28_Witness ==
    /\ \E t \in AllThreads :
          /\ calls[t] = [op |-> "save_stats_to_file", pc |-> 4]
          /\ stats_lock = t
    /\ \E t \in AllThreads : calls[t].op = "serve_page" /\ Waits(t)
    /\ \E t \in AllThreads : calls[t].op = "register_pages" /\ table_lock = t
------------------------------------------------------------------------------
(* Claims about the indexes *)

\* C2: whatever another thread reads from servedpages / servedfiles, at any
\* point during or after a rebuild (also one whose scan raises), is the
\* whole entry set from before that rebuild or the whole entry set of that
\* rebuild's scan, never an empty or partly filled list.
C2_IndexSwapIsAtomic ==
    /\ SetOf(servedpages) \in {pagesLog.before, pagesLog.target}
    /\ SetOf(servedfiles) \in {filesLog.before, filesLog.target}

\* the regular files below root that a scan has to list: no name on the way
\* from the root begins with a dot
Visible(f, root) ==
    {n \in Nodes : /\ f[n].kind = "file"
                   /\ Len(n) > Len(root)
                   /\ SubSeq(n, 1, Len(root)) = root
                   /\ \A i \in (Len(root) + 1)..Len(n) : n[i][1] # DOT}

NodesOf(f, list) == {Walk(f, list[i]) : i \in 1..Len(list)}

\* C6: the page index a scan produces holds exactly the regular files that
\* are not hidden and do not end with ".allowed"; the file index holds
\* exactly the regular files that are not hidden, ".allowed" files included.
C6_ScanSelectsEligibleFiles ==
    /\ pagesLog.hist # <<>> =>
          NodesOf(fs, Last(pagesLog.hist)) =
             {n \in Visible(fs, PagesNode) : Last(Last(n)) # ".allowed"}
    /\ filesLog.hist # <<>> =>
          NodesOf(fs, Last(filesLog.hist)) = Visible(fs, FilesNode)

\* both indexes rebuilt over trees holding hidden entries and ".allowed"
\* files: the page index has index.mu and sub/b.mu only, the file index has
\* the ".allowed" file
C6_Witness ==
    /\ Len(pagesLog.hist) = 2 /\ Len(filesLog.hist) = 2
    /\ fs[<<Pages, HiddenName>>].kind = "file"
    /\ fs[<<Pages, GitName, CName>>].kind = "file"
    /\ fs[<<Pages, AllowedName>>].kind = "file"
    /\ fs[<<Files, HFileName>>].kind = "file"
    /\ NodesOf(fs, Last(pagesLog.hist)) = {IndexNode, BNode}
    /\ NodesOf(fs, Last(filesLog.hist)) = {NotesNode, <<Files, KeyName>>}

NoDuplicates(list) == Cardinality(SetOf(list)) = Len(list)

\* C7: two rebuilds over an unchanged tree yield the same entries, and the
\* second holds nothing twice: nothing of the earlier scan is kept.
C7_RebuildIsIdempotent ==
    /\ Len(pagesLog.hist) = 2 =>
          /\ SetOf(pagesLog.hist[1]) = SetOf(pagesLog.hist[2])
          /\ NoDuplicates(pagesLog.hist[2])
    /\ Len(filesLog.hist) = 2 =>
          /\ SetOf(filesLog.hist[1]) = SetOf(filesLog.hist[2])
          /\ NoDuplicates(filesLog.hist[2])

\* each index rebuilt twice over an unchanged, non-empty tree
C7_Witness ==
    /\ Len(pagesLog.hist) = 2 /\ Len(pagesLog.hist[2]) = 2
    /\ Len(filesLog.hist) = 2 /\ Len(filesLog.hist[2]) = 2
    /\ rpc = "idle"


\* the directories on the way from root down to node n can all be listed
ReadableBelow(f, n, root) ==
    \A i \in (Len(root) + 1)..(Len(n) - 1) : f[SubSeq(n, 1, i)].readable

RootListable(f, root) == f[root].kind = "dir" /\ f[root].readable

\* C23: a scan whose root can be listed returns, also when a subdirectory
\* cannot be read, and its index then holds every eligible file that lies
\* outside the unreadable subdirectories; a scan whose root is missing or
\* cannot be listed raises to the caller of register_pages / register_files.
C23_UnreadableSubdirectoryIsSkipped ==
    [][/\ (rpc = "scan_pages" /\ rpc' # "scan_pages") =>
             IF RootListable(fs, PagesNode)
             THEN /\ rpc' = "register_pages"
                  /\ {n \in Visible(fs, PagesNode) :
                         Last(Last(n)) # ".allowed" /\ ReadableBelow(fs, n, PagesNode)}
                        \subseteq NodesOf(fs, servedpages')
             ELSE rpc' = "idle"
       /\ (rpc = "scan_files" /\ rpc' # "scan_files") =>
             IF RootListable(fs, FilesNode)
             THEN /\ rpc' = "register_files"
                  /\ {n \in Visible(fs, FilesNode) : ReadableBelow(fs, n, FilesNode)}
                        \subseteq NodesOf(fs, servedfiles')
             ELSE rpc' = "idle"]_vars

\* the registered request paths that begin with prefix
RoutesUnder(prefix) ==
    {p \in DOMAIN request_handlers :
        Len(p) > Len(prefix) /\ SubSeq(p, 1, Len(prefix)) = prefix}

\* the request paths of the files an index lists
RoutesOf(list, root, prefix) == {prefix \o rel_of(list[i], root) : i \in 1..Len(list)}

\* C25: once a rebuild has completed over the tree as it is, the routes
\* registered under /page are exactly those of the files its scan found
\* (and the index route, which is served by default when there is no index
\* file), and the routes under /file are exactly those of the files the
\* file scan found: no route of a file that has been removed remains.
C25_RoutesMatchTheIndex ==
    /\ (rpc = "idle" /\ pagesLog.hist # <<>>) =>
          RoutesUnder(PagePrefix) \ {IndexRoute} =
             RoutesOf(Last(pagesLog.hist), pagespath, PagePrefix) \ {IndexRoute}
    /\ (rpc = "idle" /\ filesLog.hist # <<>>) =>
          RoutesUnder(FilePrefix) = RoutesOf(Last(filesLog.hist), filespath, FilePrefix)
------------------------------------------------------------------------------
(* Properties of the request handlers *)

\* the node a served root names, and whether node n lies at or below it
RootOf(h) == IF h = "serve_file" THEN FilesNode ELSE PagesNode
Within(n, root) == Len(n) >= Len(root) /\ SubSeq(n, 1, Len(root)) = root
HasDotDot(path) == \E i \in 1..Len(Split(path)) : Split(path)[i] = DotDot

\* C3: a request path with ".." segments handed to serve_page or serve_file
\* is rejected: every file the handler opens or runs lies inside the served
\* root, and the response carries no content of a file outside the root.
C3_TraversalIsRejected ==
    (request.handler \in {"serve_page", "serve_file"} /\ HasDotDot(request.path)) =>
        /\ \A n \in opened : Within(n, RootOf(request.handler))
        /\ executed.attempted => Within(executed.node, RootOf(request.handler))
        /\ response.body # read(PasswdText)

\* C5: after a completed register_pages over the tree as it now is, a
\* request for the index route returns DEFAULT_INDEX if and only if the
\* pages root holds no index file, and the content of the index file when it
\* holds one.
C5_IndexRouteFollowsIndexFile ==
    (request.path = IndexRoute /\ request.fresh) =>
        IF request.had_index
        THEN response = Bytes(read(StaticPage))
        ELSE response = Bytes(DEFAULT_INDEX)

\* the payload keys that carry a recognised field/variable prefix
Prefixed(k) == k \in {"field_x", "var_field_test"}

\* C8: a script that was started sees the link id, the caller's identity
\* when there is one, and every prefixed payload entry unchanged; the echo
\* script answers payload {field_x: hello} with "hello\n".
C8_ScriptSeesRequestContext ==
    executed.started =>
        /\ "link_id" \in DOMAIN executed.env
        /\ request.remote_identity # <<>> => "remote_identity" \in DOMAIN executed.env
        /\ \A k \in DOMAIN request.data.dict :
              Prefixed(k) => /\ k \in DOMAIN executed.env
                             /\ executed.env[k] = request.data.dict[k]
        /\ (Stat(fs, executed.node).content = EchoScript /\ request.data = FieldXData)
              => response = Bytes(<<"hello", "\n">>)

\* C9: the environment given to a script holds at most PATH, the link id,
\* the caller identity and the prefixed payload entries: no other variable
\* of the host process and no unprefixed payload key.
C9_ScriptEnvironmentIsMinimal ==
    executed.attempted =>
        DOMAIN executed.env \subseteq
            {"PATH", "link_id", "remote_identity"}
                \cup {k \in DOMAIN request.data.dict : Prefixed(k)}

\* the file a page request of the model names, as the file system holds it
PageFileOf(path) == fs[IF path = IndexRoute THEN IndexNode ELSE PasswdNode]
Marked(file) ==
    /\ file.kind = "file" /\ file.readable
    /\ file.content # <<>> /\ Head(Head(file.content)) = "#!"

C11_FailedScriptFallsBack ==
    (request.handler = "serve_page" /\ executed.attempted
        /\ (~executed.started \/ returncode(Stat(fs, executed.node).content) # 0)) =>
            response = Bytes(read(Stat(fs, executed.node).content))

\* C12: a page request whose path has ".." segments, or names a file that
\* no longer exists when it is served, gets the DEFAULT_NOTALLOWED content,
\* the same in both cases, and nothing is raised.
C12_RefusedPageGetsNotAllowed ==
    (request.handler = "serve_page"
        /\ (HasDotDot(request.path) \/ PageFileOf(request.path).kind = "none")) =>
            response = Bytes(DEFAULT_NOTALLOWED)

\* C13: a request for /file/notes.txt returns a stream that yields the
\* content of notes.txt, "abc", with the header name notes.txt, when the
\* file exists under the files root; when it does not, the request fails
\* and no content is returned.
C13_FileRequest ==
    (request.handler = "serve_file" /\ request.path = FileRoute) =>
        IF fs[NotesNode].kind = "file"
        THEN response = [kind |-> "stream", body |-> <<"abc", "\n">>,
                         name |-> <<"notes", ".txt">>]
        ELSE response = [kind |-> "raise", body |-> <<>>, name |-> <<>>]

\* notes.txt was requested while present and its content was streamed
C13_Witness ==
    /\ request.handler = "serve_file"
    /\ request.path = FileRoute
    /\ fs[NotesNode].kind = "file"
    /\ response.kind = "stream"
    /\ opened = {NotesNode}

\* C19: a script started for a request with the bytes payload
\* field_bytes_test=bytes_value|... has field_bytes_test = bytes_value in
\* its environment, and the env script's response shows that key and value.
C19_BytesPayloadReachesScript ==
    (executed.started /\ request.data.kind = "bytes") =>
        /\ "field_bytes_test" \in DOMAIN executed.env
        /\ executed.env["field_bytes_test"] = "bytes_value"
        /\ Stat(fs, executed.node).content = EnvScript =>
              \E i \in 1..Len(response.body) : response.body[i] = "bytes_value"
------------------------------------------------------------------------------
(* Properties of the loops and of shutdown *)

\* C20: every pass of the announce loop's body, which runs only while the
\* stop event was not set at the loop test, calls announce exactly when more
\* than announce_interval seconds have passed since the last announce; the
\* first pass announces; the call carries the node name as app data exactly
\* when a name is configured.
C20_AnnounceCadence ==
    atick.taken =>
        /\ atick.called <=> (atick.clock - atick.last > announce_interval)
        /\ atick.first => atick.called
        /\ atick.called => /\ atick.app_data.given <=> (name # <<>>)
                           /\ atick.app_data.given => atick.app_data.data = name

\* a later pass announced again, with the name, once the interval had passed
C20_Witness ==
    /\ atick.taken /\ ~atick.first /\ atick.called
    /\ atick.last >= StartClock
    /\ name = <<"node">>
    /\ atick.app_data = [given |-> TRUE, data |-> <<"node">>]

\* C14: no pass of the refresh loop calls register_pages when
\* page_refresh_interval is 0, nor register_files when file_refresh_interval
\* is 0, however far the clock has advanced; in a pass that does not call
\* register_pages (disabled or not yet due), register_files is called
\* exactly when its own interval is positive and has passed, and
\* register_pages is called exactly when its own interval is positive and
\* has passed, whatever the file interval is.
C14_RefreshIntervalsIndependent ==
    rtick.taken =>
        /\ page_refresh_interval = 0 => ~rtick.pages_called
        /\ file_refresh_interval = 0 => ~rtick.files_called
        /\ rtick.pages_called <=>
              (page_refresh_interval > 0
                  /\ rtick.clock - rtick.last_page > page_refresh_interval)
        /\ ~rtick.pages_called =>
              (rtick.files_called <=>
                  (file_refresh_interval > 0
                      /\ rtick.clock - rtick.last_file > file_refresh_interval))

\* with page refresh disabled and two seconds passed, a pass rebuilt the
\* file index and not the page index
C14_Witness ==
    /\ rtick.taken
    /\ page_refresh_interval = 0
    /\ file_refresh_interval = 1
    /\ rtick.clock >= StartClock + 2
    /\ rtick.files_called
    /\ ~rtick.pages_called

\* C15: once the stop event is set both loops end; no pass of either loop
\* begins once the event is set, so each loop ends at its next loop test, at
\* most one pass after the event was set, and a loop that has ended had
\* seen the event.
C15_LoopsStopOnSignal ==
    /\ [](late.announce = 0 /\ late.refresh = 0)
    /\ []((announce_pc = "ended" \/ refresh_pc = "ended") => stop_event)
    /\ (stop_event ~> (announce_pc = "ended" /\ refresh_pc = "ended"))

\* both loops have ended after the stop event, the refresh loop after a pass
\* that rebuilt the pages
C15_Witness ==
    /\ stop_event
    /\ announce_pc = "ended" /\ refresh_pc = "ended"
    /\ atick.taken /\ rtick.taken /\ rtick.pages_called

\* C16: once shutdown has set the stop event it reaches the close step and
\* returns: a join that times out because its thread is still running, or a
\* join that raises, does not stop it, and shutdown never raises; close is
\* called when the destination has a close method.
C16_ShutdownReachesClose ==
    /\ [](shutdown_pc # "raised")
    /\ [](shutdown_pc = "returned" =>
             destination.close_calls = IF destination.has_close THEN 1 ELSE 0)
    /\ [](shutdown_pc \in {"idle", "join_announce", "join_refresh", "close"} =>
             destination.close_calls = 0)
    /\ (stop_event ~> shutdown_pc = "returned")

\* shutdown returned after closing the destination while the announce
\* thread was still inside its loop
C16_Witness ==
    /\ shutdown_pc = "returned"
    /\ destination.has_close /\ destination.close_calls = 1
    /\ announce_pc = "body"

\* the interval configured for each action of the loops
IntervalOf(action) ==
    IF action = "announce" THEN announce_interval
    ELSE IF action = "pages" THEN page_refresh_interval
    ELSE file_refresh_interval

\* C21: two calls of the same action (announce, page rebuild, file rebuild)
\* made by its loop are at least one tick (a second) apart, also when the
\* earlier call raised; and when the earlier call returned, the later one
\* comes more than the action's interval after it.
C21_AttemptsAreSpacedByTicks ==
    \A action \in {"announce", "pages", "files"} :
        attempts[action].n >= 2 =>
            /\ attempts[action].gap >= 1
            /\ attempts[action].prev_ok => attempts[action].gap > IntervalOf(action)

\* C24: a loop ends only when the stop event is set, whatever its calls
\* raised; and a call that raised leaves its action due, so the loop makes
\* the call again on a later pass.
C24_LoopsSurviveExceptions ==
    /\ announce_pc = "ended" => stop_event
    /\ refresh_pc = "ended" => stop_event
    /\ (attempts.announce.n > 0 /\ ~attempts.announce.ok) =>
          AnnounceDue(attempts.announce.at, last_announce, announce_interval)
    /\ (attempts.pages.n > 0 /\ ~attempts.pages.ok) =>
          RefreshDue(page_refresh_interval, attempts.pages.at, last_page_refresh)
    /\ (attempts.files.n > 0 /\ ~attempts.files.ok) =>
          RefreshDue(file_refresh_interval, attempts.files.at, last_file_refresh)

\* with the stop event not set, an announce that raised was followed by one
\* that returned, and a page rebuild that raised by one that returned
C24_Witness ==
    /\ ~stop_event
    /\ attempts.announce.n = 2 /\ ~attempts.announce.prev_ok /\ attempts.announce.ok
    /\ attempts.pages.n = 2 /\ ~attempts.pages.prev_ok /\ attempts.pages.ok
------------------------------------------------------------------------------
(* Properties of the stats file *)

\* the file cannot be used as a stats document: it is missing, is not
\* JSON text, is not text at all, or is JSON without the expected keys
Damaged(d) ==
    \/ d.kind \in {"missing", "notjson", "notutf8"}
    \/ d.kind = "json" /\ ~({"connections", "requests", "summary"} \subseteq d.keys)

\* C17: when _write_stats_event is called while the stats file is missing
\* or holds corrupt content, the file afterwards is the empty structure with
\* that one event recorded in it; and whatever happens to the file, the
\* handler completes and the in-memory counters count every connection and
\* request handled.
C17_DamagedFileIsReinitialized ==
    /\ (plog.called /\ disk_writable /\ Damaged(plog.before)) =>
          /\ disk.kind = "json"
          /\ disk.keys = {"node_info", "connections", "requests", "summary"}
          /\ disk.connections =
                IF plog.event_type = "connection" THEN <<plog.event>> ELSE <<>>
          /\ disk.requests =
                IF plog.event_type = "request" THEN <<plog.event>> ELSE <<>>
    /\ stats.total_connections = plog.handled.connections
    /\ stats.total_page_requests + stats.total_file_requests = plog.handled.requests

\* the list of the file before a write, as _write_stats_event loaded it
LoadedList(field) == IF plog.reinit THEN <<>> ELSE plog.before[field]

\* C18: after every write of the stats file, the connections list and the
\* requests list each hold at most 1000 events, and each is the most recent
\* 1000 of the events it held before followed by the event just written, in
\* arrival order.
C18_FileListsAreBounded ==
    plog.wrote =>
        /\ Len(disk.connections) <= 1000
        /\ Len(disk.requests) <= 1000
        /\ disk.connections =
              LastN(IF plog.event_type = "connection"
                    THEN Append(LoadedList("connections"), plog.event)
                    ELSE LoadedList("connections"), 1000)
        /\ disk.requests =
              LastN(IF plog.event_type = "request"
                    THEN Append(LoadedList("requests"), plog.event)
                    ELSE LoadedList("requests"), 1000)

\* a request was written to a file that already held 1000 requests: the
\* oldest one is gone and the new one is last
C18_Witness ==
    /\ plog.wrote
    /\ plog.event_type = "request"
    /\ Len(plog.before.requests) = 1000
    /\ Len(disk.requests) = 1000
    /\ disk.requests[1] = plog.before.requests[2]
    /\ disk.requests[1000] = plog.event

\* C22: as long as the statistics are not reset, active_connections is the
\* number of links established and not yet closed, and the connected-peer
\* table holds one entry for each of them.
C22_ActiveConnectionsCountOpenLinks ==
    /\ stats.active_connections = Cardinality(links)
    /\ Cardinality(DOMAIN stats.connected_peers) = Cardinality(links)

\* C29: with a stats file that is always read and written without error,
\* the summary of the file holds the same total_connections,
\* total_page_requests and total_file_requests as the statistics in memory,
\* after any sequence of connections, requests and resets.
C29_FileSummaryMatchesMemory ==
    /\ disk.kind = "json"
    /\ disk.summary.total_connections = stats.total_connections
    /\ disk.summary.total_page_requests = stats.total_page_requests
    /\ disk.summary.total_file_requests = stats.total_file_requests

\* a connection was counted, a reset then cleared memory and file, and a
\* page request recorded after it is counted in both
C29_Witness ==
    /\ plog.handled.connections = 1
    /\ stats.total_connections = 0
    /\ stats.total_page_requests = 1
    /\ disk.summary.total_page_requests = 1
    /\ Len(disk.requests) = 1
====
